---------------------------- MODULE Spec2Model ----------------------------
(***************************************************************************)
(* A model of the BSON codec extension ext/cbson/cbson.c: the encoder      *)
(* (method_serialize, write_doc, write_element, serialize_regex), the      *)
(* decoder (method_deserialize, elements_to_hash, get_value) and the byte  *)
(* buffer they use.                                                        *)
(*                                                                         *)
(* Bytes are the integers 0..255, byte strings are sequences of bytes and  *)
(* a position p of the C code is the sequence index p + 1.                 *)
(***************************************************************************)
EXTENDS Integers, Sequences, FiniteSets, TLC

(***************************************************************************)
(* Bounds of the model.                                                    *)
(***************************************************************************)
\* the largest number of entries of a generated top-level document
MaxLen == 3
\* the deepest nesting of containers below the top-level document
MaxDepth == 2
\* the small max_size argument, which some generated documents exceed
SmallMaxSize == 12

(***************************************************************************)
(* Byte strings.                                                           *)
(***************************************************************************)

\* the bytes of a reserved slot before it is patched (uninitialised memory)
Unset == 0 - 1

\* "_id", "$ref", "$id" as the C string literals of the source
Str_id == <<95, 105, 100>>
Str_ref == <<36, 114, 101, 102>>
Str_dollar_id == <<36, 105, 100>>

\* s[from..], 1-based
RECURSIVE Drop(_, _)
Drop(s, n) == IF n <= 0 \/ s = <<>> THEN s ELSE Drop(Tail(s), n - 1)

Take(s, n) == [i \in 1..(IF n < Len(s) THEN (IF n < 0 THEN 0 ELSE n) ELSE Len(s)) |-> s[i]]

\* the C string at the start of s: the bytes before the first NUL (strlen, strcmp)
RECURSIVE CStr(_)
CStr(s) == IF s = <<>> \/ Head(s) = 0 THEN <<>> ELSE <<Head(s)>> \o CStr(Tail(s))

HasByte(s, b) == \E i \in 1..Len(s) : s[i] = b

\* a non-negative int below 2^31 as 4 little-endian bytes (memory image of an int)
Le32(n) == <<n % 256, (n \div 256) % 256, (n \div 65536) % 256, (n \div 16777216) % 256>>

(***************************************************************************)
(* Host integers (Fixnum and Bignum) are unbounded: a sign and a magnitude *)
(* of MagLen little-endian base-256 digits.                                *)
(***************************************************************************)
MagLen == 9

ZeroMag == [i \in 1..MagLen |-> 0]

Pad(bytes) == [i \in 1..MagLen |-> IF i <= Len(bytes) THEN bytes[i] ELSE 0]

MagLt(a, b) == \E i \in 1..MagLen : a[i] < b[i] /\ \A j \in (i + 1)..MagLen : a[j] = b[j]

\* x < y on host integers
IntLt(x, y) ==
    IF x.neg /\ ~y.neg THEN TRUE
    ELSE IF ~x.neg /\ y.neg THEN FALSE
    ELSE IF x.neg THEN MagLt(y.mag, x.mag)
    ELSE MagLt(x.mag, y.mag)

Pos(bytes) == [neg |-> FALSE, mag |-> Pad(bytes)]
Neg(bytes) == [neg |-> TRUE, mag |-> Pad(bytes)]

\* a small integer of the model as a host integer
IntOf(n) ==
    IF n < 0 THEN Neg(Le32(0 - n)) ELSE Pos(Le32(n))

\* bytes + 1, as a little-endian number of the same width (the carry out is dropped)
RECURSIVE Inc(_)
Inc(bytes) ==
    IF bytes = <<>> THEN <<>>
    ELSE IF Head(bytes) = 255 THEN <<0>> \o Inc(Tail(bytes))
    ELSE <<Head(bytes) + 1>> \o Tail(bytes)

Invert(bytes) == [i \in 1..Len(bytes) |-> 255 - bytes[i]]

\* the w-byte two's complement memory image of the host integer x (x mod 2^(8w))
TwosComplement(x, w) ==
    IF x.neg THEN Inc(Invert(Take(x.mag, w))) ELSE Take(x.mag, w)

\* the host integer held by a w-byte signed little-endian memory image
FromTwosComplement(bytes) ==
    IF bytes[Len(bytes)] >= 128 THEN Neg(Inc(Invert(bytes))) ELSE Pos(bytes)

\* the host integer held by a w-byte unsigned little-endian memory image
FromUnsigned(bytes) == Pos(bytes)

\* the small integer of the model a 4-byte signed little-endian image holds
Int32At(b) ==
    b[1] + 256 * b[2] + 65536 * b[3] + 16777216 * (IF b[4] >= 128 THEN b[4] - 256 ELSE b[4])

LLONG_MAX == Pos(<<255, 255, 255, 255, 255, 255, 255, 127>>)
LLONG_MIN == Neg(<<0, 0, 0, 0, 0, 0, 0, 128>>)
INT_MAX == Pos(<<255, 255, 255, 127>>)
INT_MIN == Neg(<<0, 0, 0, 128>>)
UINT_MAX == Pos(<<255, 255, 255, 255>>)


(***************************************************************************)
(* The byte buffer (bson_buffer.h) and the UTF-8 validator                 *)
(* (encoding_helpers.h).  An encoder state b is the buffer with what the   *)
(* call has done to it: buf, the bytes written; err, the exception that    *)
(* has been raised ("" while none is: rb_raise leaves by longjmp, so once  *)
(* err is set no later step of the call runs); frees, how many times       *)
(* bson_buffer_free was called on it; max, its max_size; log, the writes   *)
(* that went over bytes already in the buffer.                             *)
(***************************************************************************)
bson_buffer_new == [buf |-> <<>>, err |-> "", frees |-> 0, max |-> 0, log |-> <<>>]

bson_buffer_set_max_size(b, n) == [b EXCEPT !.max = n]

bson_buffer_get_position(b) == Len(b.buf)

bson_buffer_write(b, data) == [b EXCEPT !.buf = @ \o data]

bson_buffer_save_space(b, n) == [b EXCEPT !.buf = @ \o [i \in 1..n |-> Unset]]

\* the bytes written over others are logged: where, how many, and whether they filled
\* a reserved slot no byte of which had been written
Overwrite(b, position, n) ==
    [at |-> position, n |-> n,
     slot |-> \A i \in (position + 1)..(position + n) : i <= Len(b.buf) /\ b.buf[i] = Unset]

bson_buffer_write_at_position(b, position, data) ==
    [b EXCEPT !.buf = [i \in 1..Len(@) |->
                          IF i > position /\ i <= position + Len(data)
                          THEN data[i - position] ELSE @[i]],
              !.log = Append(@, Overwrite(b, position, Len(data)))]

bson_buffer_free(b) == [b EXCEPT !.frees = @ + 1]

Raised(b) == b.err # ""

rb_raise(b, e) == IF Raised(b) THEN b ELSE [b EXCEPT !.err = e]

\* bson_buffer_free(buffer); rb_raise(e, ...)
FreeAndRaise(b, e) == IF Raised(b) THEN b ELSE rb_raise(bson_buffer_free(b), e)

SAFE_WRITE(b, data) == IF Raised(b) THEN b ELSE bson_buffer_write(b, data)

SAFE_WRITE_AT_POS(b, position, data) ==
    IF Raised(b) THEN b ELSE bson_buffer_write_at_position(b, position, data)

SaveSpace(b, n) == IF Raised(b) THEN b ELSE bson_buffer_save_space(b, n)

RECURSIVE validate_utf8_encoding(_, _)
validate_utf8_encoding(s, allow_null) ==
    IF s = <<>> THEN "VALID"
    ELSE IF Head(s) = 0
        THEN IF allow_null THEN validate_utf8_encoding(Tail(s), allow_null) ELSE "HAS_NULL"
    ELSE IF Head(s) < 128 THEN validate_utf8_encoding(Tail(s), allow_null)
    ELSE IF Head(s) \in 194..223 /\ Len(s) >= 2 /\ s[2] \in 128..191
        THEN validate_utf8_encoding(Drop(s, 2), allow_null)
    ELSE "INVALID_UTF8"

write_utf8(b, string, allow_null) ==
    LET status == validate_utf8_encoding(string, allow_null)
    IN  IF status = "HAS_NULL" THEN FreeAndRaise(b, "InvalidDocument")
        ELSE IF status = "INVALID_UTF8" THEN FreeAndRaise(b, "InvalidStringEncoding")
        ELSE SAFE_WRITE(b, string)

write_name_and_type(b, name, type) ==
    SAFE_WRITE(write_utf8(SAFE_WRITE(b, <<type>>), name, FALSE), <<0>>)

(***************************************************************************)
(* Regular expressions.  The option word of a regex is the set of the      *)
(* names of the option bits that are set in it.                            *)
(***************************************************************************)
NativeFlags == {"IGNORECASE", "MULTILINE", "EXTENDED"}
BSONRegexFlags ==
    {"IGNORECASE", "LOCALE_DEPENDENT", "MULTILINE", "DOTALL", "UNICODE", "EXTENDED"}

\* qsort(..., cmp_char): the bytes in ascending order
RECURSIVE Insert(_, _)
Insert(x, s) ==
    IF s = <<>> THEN <<x>>
    ELSE IF x <= Head(s) THEN <<x>> \o s
    ELSE <<Head(s)>> \o Insert(x, Tail(s))

RECURSIVE qsort(_)
qsort(s) == IF s = <<>> THEN <<>> ELSE Insert(Head(s), qsort(Tail(s)))

FlagIf(b, flags, name, char) == IF name \in flags THEN SAFE_WRITE(b, <<char>>) ELSE b

native_flag_bytes(b, flags) ==
    LET m == SAFE_WRITE(b, <<109>>)
        i == FlagIf(m, flags, "IGNORECASE", 105)
        s == FlagIf(i, flags, "MULTILINE", 115)
    IN  FlagIf(s, flags, "EXTENDED", 120)

bson_flag_bytes(b, flags) ==
    LET i == FlagIf(b, flags, "IGNORECASE", 105)
        l == FlagIf(i, flags, "LOCALE_DEPENDENT", 108)
        m == FlagIf(l, flags, "MULTILINE", 109)
        s == FlagIf(m, flags, "DOTALL", 115)
        u == FlagIf(s, flags, "UNICODE", 117)
    IN  FlagIf(u, flags, "EXTENDED", 120)

\* respond_to?("extra_options_str"): the string is appended, then sorted in place
write_extra_options(b, value) ==
    IF Raised(b) \/ ~value.has_extra THEN b
    ELSE LET old_position == bson_buffer_get_position(b)
             w == SAFE_WRITE(b, value.extra)
         IN  [w EXCEPT !.buf = Take(@, old_position) \o qsort(Drop(@, old_position)),
                       !.log = IF qsort(value.extra) = value.extra THEN @
                               ELSE Append(@, Overwrite(w, old_position, Len(value.extra)))]

serialize_regex(b, key, pattern, flags, value, native) ==
    LET n == write_name_and_type(b, key, 11)
        p == SAFE_WRITE(write_utf8(n, pattern, FALSE), <<0>>)
        f == IF native THEN native_flag_bytes(p, flags) ELSE bson_flag_bytes(p, flags)
    IN  SAFE_WRITE(write_extra_options(f, value), <<0>>)

(***************************************************************************)
(* Host values.  A value is a record whose field t is what TYPE(value)     *)
(* returns; an object also has cls, what rb_obj_classname returns, and the *)
(* attributes the encoder reads by rb_funcall.  A hash holds its entries   *)
(* in iteration order, e[i] = [k |-> key, v |-> value]; a key is           *)
(* [kt |-> "string" | "symbol" | "other", s |-> bytes].                    *)
(***************************************************************************)
FIXNUM_MAX == Pos(<<255, 255, 255, 255, 255, 255, 255, 63>>)
FIXNUM_MIN == Neg(<<0, 0, 0, 0, 0, 0, 0, 64>>)

\* an integer object: a Fixnum while it fits a tagged machine word, else a Bignum
Integer(n) ==
    [t |-> IF IntLt(FIXNUM_MAX, n) \/ IntLt(n, FIXNUM_MIN) THEN "T_BIGNUM" ELSE "T_FIXNUM",
     n |-> n]

StrKey(s) == [kt |-> "string", s |-> s]
SymKey(s) == [kt |-> "symbol", s |-> s]

\* hash.has_key?(key)
has_key(hash, key) == \E i \in 1..Len(hash.e) : hash.e[i].k = key

\* rb_hash_aref(hash, key), for a key the hash has
rb_hash_aref(hash, key) ==
    hash.e[CHOOSE i \in 1..Len(hash.e) : hash.e[i].k = key].v

\* asprintf("%d", i) for i >= 0
RECURSIVE INT2STRING(_)
INT2STRING(i) ==
    IF i < 10 THEN <<48 + i>> ELSE INT2STRING(i \div 10) \o <<48 + (i % 10)>>

\* NUM2UINT: a RangeError of the host outside [INT_MIN, UINT_MAX]
NUM2UINT_ok(n) == ~IntLt(n, INT_MIN) /\ ~IntLt(UINT_MAX, n)

\* (long long)round(t * 1000) for the Time of sec seconds and usec microseconds: round
\* takes a half away from zero
time_since_epoch(sec, usec) ==
    LET us == sec * 1000000 + usec
    IN  IF us >= 0 THEN (us + 500) \div 1000 ELSE 0 - ((500 - us) \div 1000)

\* the test as strcmp(rb_obj_classname(hash), "Hash") == 0 would evaluate it
classname_is_Hash_strcmp(hash) == hash.t = "T_HASH"

\* write_doc, lines 659-666: the test compares the address of the literal "Hash"
\* with 0 (the comma operator drops the class name), so it never holds
classname_is_Hash(hash) == FALSE

\* lines 661-665: delete :_id and store its value under "_id"
coalesce_id(hash) ==
    IF has_key(hash, StrKey(Str_id)) /\ has_key(hash, SymKey(Str_id))
    THEN LET oid_sym == rb_hash_aref(hash, SymKey(Str_id))
             kept == SelectSeq(hash.e, LAMBDA en : en.k # SymKey(Str_id))
         IN  [hash EXCEPT !.e = [i \in 1..Len(kept) |->
                 IF kept[i].k = StrKey(Str_id) THEN [k |-> kept[i].k, v |-> oid_sym]
                 ELSE kept[i]]]
    ELSE hash

\* the hash as write_doc leaves it to its caller
hash_after_write_doc(hash, move_id) ==
    IF hash.t = "T_HASH" /\ ~move_id /\ classname_is_Hash(hash) THEN coalesce_id(hash)
    ELSE hash

(***************************************************************************)
(* The encoder.                                                            *)
(***************************************************************************)
RECURSIVE write_element(_, _, _, _, _)
RECURSIVE write_doc(_, _, _, _)
RECURSIVE write_entries(_, _, _, _)
RECURSIVE write_items(_, _, _, _)
RECURSIVE write_value(_, _, _, _)
RECURSIVE write_object(_, _, _)
RECURSIVE write_array(_, _, _, _)
RECURSIVE write_dbref(_, _, _)
RECURSIVE write_code(_, _, _)

\* lines 329-341: the key check of check_keys
check_key(b, key) ==
    IF Len(key) > 0 /\ key[1] = 36 THEN FreeAndRaise(b, "InvalidKeyName")
    ELSE IF HasByte(key, 46) THEN FreeAndRaise(b, "InvalidKeyName")
    ELSE b

\* mutation of write_integer: 2^31 - 1 is taken for an Int64 too
write_integer_narrow(b, key, value) ==
    IF value.t = "T_BIGNUM" /\ (IntLt(LLONG_MAX, value.n) \/ IntLt(value.n, LLONG_MIN))
    THEN FreeAndRaise(b, "RangeError")
    ELSE IF ~IntLt(value.n, INT_MAX) \/ IntLt(value.n, INT_MIN)
        THEN SAFE_WRITE(write_name_and_type(b, key, 18), TwosComplement(value.n, 8))
    ELSE SAFE_WRITE(write_name_and_type(b, key, 16), TwosComplement(value.n, 4))

\* lines 344-369: T_BIGNUM and T_FIXNUM
write_integer(b, key, value) ==
    IF value.t = "T_BIGNUM" /\ (IntLt(LLONG_MAX, value.n) \/ IntLt(value.n, LLONG_MIN))
    THEN FreeAndRaise(b, "RangeError")
    ELSE LET ll_value == value.n
         IN  IF IntLt(INT_MAX, ll_value) \/ IntLt(ll_value, INT_MIN)
             THEN SAFE_WRITE(write_name_and_type(b, key, 18), TwosComplement(ll_value, 8))
             ELSE SAFE_WRITE(write_name_and_type(b, key, 16), TwosComplement(ll_value, 4))

\* lines 430-439 and 562-571: a string value
write_string(b, key, str) ==
    LET n == write_name_and_type(b, key, 2)
        l == SAFE_WRITE(n, Le32(Len(str) + 1))
    IN  SAFE_WRITE(write_utf8(l, str, TRUE), <<0>>)

\* lines 453-471: BSON::Binary and ByteBuffer
write_binary(b, key, value) ==
    LET length == Len(value.data)
        subtype == IF value.cls = "ByteBuffer" THEN 2 ELSE value.subtype
        n == write_name_and_type(b, key, 5)
    IN  IF subtype = 2
        THEN SAFE_WRITE(SAFE_WRITE(SAFE_WRITE(SAFE_WRITE(n,
                 Le32(length + 4)), <<subtype>>), Le32(length)), value.data)
        ELSE SAFE_WRITE(SAFE_WRITE(SAFE_WRITE(n, Le32(length)), <<subtype>>), value.data)

\* lines 424-427, 500-503 and 525-526: the length of the frame that began at
\* start_position, stored in the 4 bytes reserved there
patch_length(z, start_position) ==
    SAFE_WRITE_AT_POS(z, start_position,
        Le32(bson_buffer_get_position(z) - start_position))

\* mutation of dbref_frame: "$ref" and "$id" are written under the caller's key check
dbref_frame_checked(n, value) ==
    patch_length(
        SAFE_WRITE(
            write_element(
                write_element(SaveSpace(n, 4), StrKey(Str_ref), value.ns, TRUE, TRUE),
                StrKey(Str_dollar_id), value.oid, TRUE, TRUE),
            <<0>>),
        bson_buffer_get_position(n))

\* lines 487-503: the frame of a DBRef, after the name and type n
dbref_frame(n, value) ==
    patch_length(
        SAFE_WRITE(
            write_element(
                write_element(SaveSpace(n, 4), StrKey(Str_ref), value.ns, FALSE, TRUE),
                StrKey(Str_dollar_id), value.oid, FALSE, TRUE),
            <<0>>),
        bson_buffer_get_position(n))

\* lines 482-505: BSON::DBRef
write_dbref(b, key, value) == dbref_frame(write_name_and_type(b, key, 3), value)

\* lines 512-526: the frame of a Code, after the name and type n
code_frame(n, value) ==
    patch_length(
        write_doc(
            SAFE_WRITE(SAFE_WRITE(SAFE_WRITE(SaveSpace(n, 4),
                Le32(Len(value.code) + 1)), value.code), <<0>>),
            value.scope, FALSE, FALSE),
        bson_buffer_get_position(n))

\* lines 506-528: BSON::Code
write_code(b, key, value) == code_frame(write_name_and_type(b, key, 15), value)

\* lines 537-551: BSON::Timestamp
write_timestamp(b, key, value) ==
    LET n == write_name_and_type(b, key, 17)
    IN  IF Raised(n) THEN n
        ELSE IF ~NUM2UINT_ok(value.seconds) \/ ~NUM2UINT_ok(value.increment)
            THEN rb_raise(n, "RangeError")
        ELSE SAFE_WRITE(SAFE_WRITE(n, TwosComplement(value.increment, 4)),
                 TwosComplement(value.seconds, 4))

\* lines 406-427: the frame of an array, after the name and type n
array_frame(n, value, check_keys) ==
    patch_length(
        SAFE_WRITE(write_items(SaveSpace(n, 4), value.a, 0, check_keys), <<0>>),
        bson_buffer_get_position(n))

\* lines 400-429: T_ARRAY
write_array(b, key, value, check_keys) ==
    array_frame(write_name_and_type(b, key, 4), value, check_keys)

\* lines 449-580: T_OBJECT
write_object(b, key, value) ==
    LET cls == value.cls
    IN  IF cls \in {"BSON::Binary", "ByteBuffer"} THEN write_binary(b, key, value)
        ELSE IF cls = "BSON::ObjectId"
            THEN SAFE_WRITE(write_name_and_type(b, key, 7), value.oid)
        ELSE IF cls = "BSON::DBRef" THEN write_dbref(b, key, value)
        ELSE IF cls = "BSON::Code" THEN write_code(b, key, value)
        ELSE IF cls = "BSON::MaxKey" THEN write_name_and_type(b, key, 127)
        ELSE IF cls = "BSON::MinKey" THEN write_name_and_type(b, key, 255)
        ELSE IF cls = "BSON::Timestamp" THEN write_timestamp(b, key, value)
        ELSE IF cls \in {"DateTime", "Date", "ActiveSupport::TimeWithZone"}
            THEN FreeAndRaise(b, "InvalidDocument")
        ELSE IF cls \in {"Complex", "Rational", "BigDecimal"}
            THEN FreeAndRaise(b, "InvalidDocument")
        ELSE IF cls = "ActiveSupport::Multibyte::Chars" THEN write_string(b, key, value.s)
        ELSE IF cls = "BSON::Regex"
            THEN serialize_regex(b, key, value.pattern, value.flags, value, FALSE)
        ELSE FreeAndRaise(b, "InvalidDocument")

\* lines 581-605: T_DATA
write_data(b, key, value) ==
    IF value.cls = "Time"
    THEN SAFE_WRITE(write_name_and_type(b, key, 9),
             TwosComplement(IntOf(time_since_epoch(value.sec, value.usec)), 8))
    ELSE FreeAndRaise(b, "InvalidDocument")

\* case T_HASH with the embedded document written as a top-level one is under move_id
write_hash_move_id(b, key, value, check_keys) ==
    write_doc(write_name_and_type(b, key, 3), value, check_keys, TRUE)

\* lines 394-399: case T_HASH, an embedded document, written with move_id = Qfalse
write_hash(b, key, value, check_keys) ==
    write_doc(write_name_and_type(b, key, 3), value, check_keys, FALSE)

\* lines 343-620: the switch on TYPE(value)
write_value(b, key, value, check_keys) ==
    LET t == value.t
    IN  IF t \in {"T_BIGNUM", "T_FIXNUM"} THEN write_integer(b, key, value)
        ELSE IF t = "T_TRUE" THEN SAFE_WRITE(write_name_and_type(b, key, 8), <<1>>)
        ELSE IF t = "T_FALSE" THEN SAFE_WRITE(write_name_and_type(b, key, 8), <<0>>)
        ELSE IF t = "T_FLOAT" THEN SAFE_WRITE(write_name_and_type(b, key, 1), value.bits)
        ELSE IF t = "T_NIL" THEN write_name_and_type(b, key, 10)
        ELSE IF t = "T_HASH" THEN write_hash(b, key, value, check_keys)
        ELSE IF t = "T_ARRAY" THEN write_array(b, key, value, check_keys)
        ELSE IF t = "T_STRING" THEN write_string(b, key, value.s)
        ELSE IF t = "T_SYMBOL"
            THEN SAFE_WRITE(SAFE_WRITE(write_name_and_type(b, key, 14),
                     Le32(Len(CStr(value.s)) + 1)), CStr(value.s) \o <<0>>)
        ELSE IF t = "T_OBJECT" THEN write_object(b, key, value)
        ELSE IF t = "T_DATA" THEN write_data(b, key, value)
        ELSE IF t = "T_REGEXP"
            THEN serialize_regex(b, key, value.pattern, value.flags, value, TRUE)
        ELSE FreeAndRaise(b, "InvalidDocument")

write_element(b, key, value, check_keys, allow_id) ==
    IF Raised(b) THEN b
    ELSE IF key.kt \notin {"symbol", "string"} THEN FreeAndRaise(b, "TypeError")
    ELSE LET name == IF key.kt = "symbol" THEN CStr(key.s) ELSE key.s
         IN  IF ~allow_id /\ CStr(name) = Str_id THEN b
             ELSE LET c == IF check_keys THEN check_key(b, name) ELSE b
                  IN  IF Raised(c) THEN c ELSE write_value(c, name, value, check_keys)

\* the array loop of lines 414-422, from index i
write_items(b, items, i, check_keys) ==
    IF Raised(b) \/ i >= Len(items) THEN b
    ELSE write_items(
             write_element(b, StrKey(INT2STRING(i)), items[i + 1], check_keys, TRUE),
             items, i + 1, check_keys)

\* lines 676-688: the entries in iteration order, through write_function
write_entries(b, entries, check_keys, allow_id) ==
    IF Raised(b) \/ entries = <<>> THEN b
    ELSE write_entries(
             write_element(b, Head(entries).k, Head(entries).v, check_keys, allow_id),
             Tail(entries), check_keys, allow_id)

\* lines 646-656: with move_id, the "_id" entry first (the string key before the symbol)
write_id_first(b, hash, check_keys) ==
    IF Raised(b) THEN b
    ELSE IF hash.t # "T_HASH" THEN rb_raise(b, "NoMethodError")
    ELSE IF has_key(hash, StrKey(Str_id)) \/ has_key(hash, SymKey(Str_id))
        THEN LET id == IF has_key(hash, StrKey(Str_id)) THEN StrKey(Str_id)
                       ELSE SymKey(Str_id)
             IN  write_element(b, id, rb_hash_aref(hash, id), check_keys, TRUE)
    ELSE b

\* mutation of finish_doc: the size is not compared with max_size
finish_doc_unchecked(b, start_position, length_location) ==
    SAFE_WRITE_AT_POS(SAFE_WRITE(b, <<0>>), length_location,
        Le32(bson_buffer_get_position(b) + 1 - start_position))

\* lines 694-706: the trailing NUL, the size check and the length patch
finish_doc(b, start_position, length_location) ==
    LET z == SAFE_WRITE(b, <<0>>)
        length == bson_buffer_get_position(z) - start_position
    IN  IF Raised(z) THEN z
        ELSE IF length > z.max THEN FreeAndRaise(z, "InvalidDocument")
        ELSE SAFE_WRITE_AT_POS(z, length_location, Le32(length))

\* lines 676-692: the entries of the hash h, or InvalidDocument for what is no hash
write_body(first, h, check_keys, allow_id) ==
    IF Raised(first) THEN first
    ELSE IF h.t = "T_HASH" /\ h.cls = "BSON::OrderedHash"
        THEN write_entries(first, h.e, check_keys, allow_id)
    ELSE IF h.t = "T_HASH"
        THEN write_entries(first, h.e, check_keys, allow_id)
    ELSE FreeAndRaise(first, "InvalidDocument")

\* lines 646-692, after the 4 bytes of the length were reserved in r
doc_frame(r, hash, check_keys, move_id) ==
    write_body(
        IF move_id THEN write_id_first(r, hash, check_keys) ELSE r,
        hash_after_write_doc(hash, move_id), check_keys, ~move_id)

write_doc(b, hash, check_keys, move_id) ==
    finish_doc(doc_frame(SaveSpace(b, 4), hash, check_keys, move_id),
        bson_buffer_get_position(b), bson_buffer_get_position(b))

\* mutation of serialize_result: the bytes returned stop before the last one written
serialize_result_short(w) ==
    IF Raised(w) THEN [result |-> <<>>, err |-> w.err, frees |-> w.frees, log |-> w.log]
    ELSE [result |-> Take(w.buf, bson_buffer_get_position(w) - 1), err |-> "",
          frees |-> bson_buffer_free(w).frees, log |-> w.log]

\* lines 721-725: the bytes of the buffer are returned and the buffer is freed
serialize_result(w) ==
    IF Raised(w) THEN [result |-> <<>>, err |-> w.err, frees |-> w.frees, log |-> w.log]
    ELSE [result |-> w.buf, err |-> "", frees |-> bson_buffer_free(w).frees,
          log |-> w.log]

\* the call serialize(doc, check_keys, move_id, max_size): what it returns (result, the
\* bytes, none when it raises), what it raises and what it has done to its buffer
method_serialize(doc, check_keys, move_id, max_size) ==
    serialize_result(
        write_doc(bson_buffer_set_max_size(bson_buffer_new, max_size),
            doc, check_keys, move_id))

(***************************************************************************)
(* The decoder.  buf is the whole byte string given to deserialize and a   *)
(* position is an offset into it (the C code keeps positions relative to   *)
(* the pointer it was given; base is that pointer's offset).  A result is  *)
(* [value, position, err, oob, hang]: err is the exception raised ("" if   *)
(* none); oob says that the call has read a byte outside buf, after which  *)
(* what it returns is undefined and the model follows it no further; hang  *)
(* says that a loop of the call has come back to a position it had left,   *)
(* from where it repeats itself for ever.                                  *)
(***************************************************************************)
Nil == [t |-> "T_NIL"]

Ok(v, p) == [value |-> v, position |-> p, err |-> "", oob |-> FALSE, hang |-> FALSE]
Fail(e, p) == [value |-> Nil, position |-> p, err |-> e, oob |-> FALSE, hang |-> FALSE]
OutOfBounds(p) == [value |-> Nil, position |-> p, err |-> "", oob |-> TRUE, hang |-> FALSE]
Hang(p) == [value |-> Nil, position |-> p, err |-> "", oob |-> FALSE, hang |-> TRUE]
Stopped(r) == r.err # "" \/ r.oob \/ r.hang

InBuf(buf, p, n) == p >= 0 /\ n >= 0 /\ p + n <= Len(buf)

\* the n bytes at offset p
BytesAt(buf, p, n) == [i \in 1..n |-> buf[p + i]]

\* strlen(buf + p), or -1 when no NUL follows inside buf
RECURSIVE strlen(_, _)
strlen(buf, p) ==
    IF p < 0 \/ p >= Len(buf) THEN 0 - 1
    ELSE IF buf[p + 1] = 0 THEN 0
    ELSE LET rest == strlen(buf, p + 1) IN IF rest < 0 THEN rest ELSE rest + 1

\* strcmp(buf + p, lit) == 0, with the bytes it reads: "eq", "ne" or "oob"
RECURSIVE strcmp(_, _, _)
strcmp(buf, p, lit) ==
    IF p < 0 \/ p >= Len(buf) THEN "oob"
    ELSE IF lit = <<>> THEN (IF buf[p + 1] = 0 THEN "eq" ELSE "ne")
    ELSE IF buf[p + 1] # Head(lit) THEN "ne"
    ELSE strcmp(buf, p + 1, Tail(lit))

\* C division and remainder (towards zero)
CDiv(a, b) == IF a >= 0 THEN a \div b ELSE 0 - ((0 - a) \div b)
CRem(a, b) == a - b * CDiv(a, b)

\* a host integer as an integer of the model, when it is small enough to be one
IsSmall(x) == \A i \in 4..MagLen : x.mag[i] = 0
Small(x) ==
    LET m == x.mag[1] + 256 * x.mag[2] + 65536 * x.mag[3]
    IN  IF x.neg THEN 0 - m ELSE m

\* lines 836-858: the Time of millis milliseconds, normalised to 0 <= usec < 10^6
time_new(millis) ==
    IF ~IsSmall(millis) THEN [t |-> "T_DATA", cls |-> "Time", big |-> millis]
    ELSE LET m == Small(millis)
             sec == CDiv(m, 1000)
             usec == CRem(m, 1000) * 1000
         IN  IF usec < 0
             THEN [t |-> "T_DATA", cls |-> "Time", sec |-> sec - 1, usec |-> usec + 1000000]
             ELSE [t |-> "T_DATA", cls |-> "Time", sec |-> sec, usec |-> usec]

\* mutation of element_assignment: the entry is put before the entries read so far
element_prepended(entries, name, value) ==
    <<[k |-> StrKey(name), v |-> value]>> \o entries

\* hash[name] = value on an ordered hash: a key it has keeps its place
element_assignment(entries, name, value) ==
    IF \E i \in 1..Len(entries) : entries[i].k = StrKey(name)
    THEN [i \in 1..Len(entries) |->
             IF entries[i].k = StrKey(name) THEN [k |-> StrKey(name), v |-> value]
             ELSE entries[i]]
    ELSE Append(entries, [k |-> StrKey(name), v |-> value])

OrderedHash(entries) == [t |-> "T_HASH", cls |-> "BSON::OrderedHash", e |-> entries]

\* lines 745-753 (and the collection name of lines 763-768 and 888-891): an int32
\* length, then length - 1 bytes and a NUL
get_string(buf, p) ==
    IF ~InBuf(buf, p, 4) THEN OutOfBounds(p)
    ELSE LET value_length == Int32At(BytesAt(buf, p, 4)) - 1
         IN  IF value_length < 0 THEN Fail("ArgumentError", p + 4)
             ELSE IF ~InBuf(buf, p + 4, value_length) THEN OutOfBounds(p + 4)
             ELSE Ok([t |-> "T_STRING", s |-> BytesAt(buf, p + 4, value_length)],
                      p + 4 + value_length + 1)

\* lines 799-817: Binary
get_binary(buf, p) ==
    IF ~InBuf(buf, p, 5) THEN OutOfBounds(p)
    ELSE LET length == Int32At(BytesAt(buf, p, 4))
             subtype == buf[p + 5]
             from == IF subtype = 2 THEN p + 9 ELSE p + 5
             n == IF subtype = 2 THEN length - 4 ELSE length
         IN  IF n < 0 THEN Fail("ArgumentError", p)
             ELSE IF ~InBuf(buf, from, n) THEN OutOfBounds(p)
             ELSE Ok([t |-> "T_OBJECT", cls |-> "BSON::Binary",
                      data |-> BytesAt(buf, from, n), subtype |-> subtype],
                     p + length + 5)

\* a value of fixed size n: value is what its n bytes at p make
get_fixed(buf, p, n, value) ==
    IF ~InBuf(buf, p, n) THEN OutOfBounds(p) ELSE Ok(value, p + n)

ObjectIdOf(bytes) == [t |-> "T_OBJECT", cls |-> "BSON::ObjectId", oid |-> bytes]
FloatOf(bytes) == [t |-> "T_FLOAT", bits |-> bytes]
BoolOf(bytes) == IF bytes[1] # 0 THEN [t |-> "T_TRUE"] ELSE [t |-> "T_FALSE"]
TimeOf(bytes) == time_new(FromTwosComplement(bytes))
SignedOf(bytes) == Integer(FromTwosComplement(bytes))
TimestampOf(bytes) ==
    [t |-> "T_OBJECT", cls |-> "BSON::Timestamp",
     seconds |-> FromUnsigned(BytesAt(bytes, 4, 4)),
     increment |-> FromUnsigned(BytesAt(bytes, 0, 4))]

RECURSIVE get_value(_, _, _, _)
RECURSIVE elements_to_hash(_, _, _, _)
RECURSIVE hash_loop(_, _, _, _, _)
RECURSIVE array_loop(_, _, _, _, _)
RECURSIVE get_element(_, _, _)
RECURSIVE get_document(_, _, _)
RECURSIVE get_dbref(_, _, _)
RECURSIVE get_array(_, _, _)
RECURSIVE get_code(_, _, _)

\* lines 759-772: an embedded document whose first key is "$ref" is read as a DBRef
dbref_new(ns, oid) ==
    IF Stopped(oid) THEN oid
    ELSE Ok([t |-> "T_OBJECT", cls |-> "BSON::DBRef", ns |-> ns.value, oid |-> oid.value],
            oid.position)

dbref_id(buf, ns, opts) ==
    IF Stopped(ns) THEN ns
    ELSE IF ~InBuf(buf, ns.position, 1) THEN OutOfBounds(ns.position)
    ELSE dbref_new(ns, get_value(buf, ns.position + 5, buf[ns.position + 1], opts))

get_dbref(buf, p, opts) == dbref_id(buf, get_string(buf, p + 10), opts)

\* lines 773-777: the value read, and the position after the size the document gave
document_value(r, position) == IF Stopped(r) THEN r ELSE Ok(r.value, position)

\* lines 755-778: tag 0x03
get_document(buf, p, opts) ==
    IF ~InBuf(buf, p, 4) THEN OutOfBounds(p)
    ELSE IF strcmp(buf, p + 5, Str_ref) = "oob" THEN OutOfBounds(p)
    ELSE document_value(
             IF strcmp(buf, p + 5, Str_ref) = "eq" THEN get_dbref(buf, p, opts)
             ELSE elements_to_hash(buf, p + 4, Int32At(BytesAt(buf, p, 4)) - 5, opts),
             p + Int32At(BytesAt(buf, p, 4)))

\* lines 796-797: the array read, and the position after its closing NUL
array_value(r) ==
    IF Stopped(r) THEN r ELSE Ok([t |-> "T_ARRAY", a |-> r.value], r.position + 1)

\* lines 779-798: tag 0x04
get_array(buf, p, opts) ==
    IF ~InBuf(buf, p, 4) THEN OutOfBounds(p)
    ELSE array_value(
             array_loop(buf, p + 4, p + Int32At(BytesAt(buf, p, 4)) - 1, <<>>, opts))

\* lines 864-883: tag 0x0B
get_regex(buf, p, opts) ==
    LET pattern_length == strlen(buf, p)
        flags_length == strlen(buf, p + pattern_length + 1)
    IN  IF pattern_length < 0 \/ flags_length < 0 THEN OutOfBounds(p)
        ELSE Ok([t |-> "T_OBJECT", cls |-> "BSON::Regex",
                 pattern |-> BytesAt(buf, p, pattern_length),
                 flags_str |-> BytesAt(buf, p + pattern_length + 1, flags_length),
                 compiled |-> opts.compile_regex],
                p + pattern_length + 1 + flags_length + 1)

\* lines 884-902: tag 0x0C
get_dbpointer(buf, p) ==
    LET collection == get_string(buf, p)
    IN  IF Stopped(collection) THEN collection
        ELSE IF ~InBuf(buf, collection.position, 12) THEN OutOfBounds(collection.position)
        ELSE Ok([t |-> "T_OBJECT", cls |-> "BSON::DBRef", ns |-> collection.value,
                 oid |-> ObjectIdOf(BytesAt(buf, collection.position, 12))],
                collection.position + 12)

\* lines 903-910: tag 0x0E
get_symbol(buf, p) ==
    IF ~InBuf(buf, p, 4) \/ strlen(buf, p + 4) < 0 THEN OutOfBounds(p)
    ELSE Ok([t |-> "T_SYMBOL", s |-> BytesAt(buf, p + 4, strlen(buf, p + 4))],
            p + Int32At(BytesAt(buf, p, 4)) + 4)

\* lines 911-929: tag 0x0F
code_new(code, scope, scope_size) ==
    IF Stopped(scope) THEN scope
    ELSE Ok([t |-> "T_OBJECT", cls |-> "BSON::Code", code |-> code.value.s,
             scope |-> scope.value],
            code.position + scope_size)

code_scope(buf, code, opts) ==
    IF Stopped(code) THEN code
    ELSE IF ~InBuf(buf, code.position, 4) THEN OutOfBounds(code.position)
    ELSE code_new(code,
             elements_to_hash(buf, code.position + 4,
                 Int32At(BytesAt(buf, code.position, 4)) - 5, opts),
             Int32At(BytesAt(buf, code.position, 4)))

get_code(buf, p, opts) == code_scope(buf, get_string(buf, p + 4), opts)

get_value(buf, p, type, opts) ==
    IF type = 255 THEN Ok([t |-> "T_OBJECT", cls |-> "BSON::MinKey"], p)
    ELSE IF type = 1 THEN get_fixed(buf, p, 8, FloatOf(BytesAt(buf, p, 8)))
    ELSE IF type \in {2, 13} THEN get_string(buf, p)
    ELSE IF type = 3 THEN get_document(buf, p, opts)
    ELSE IF type = 4 THEN get_array(buf, p, opts)
    ELSE IF type = 5 THEN get_binary(buf, p)
    ELSE IF type = 6 THEN Ok(Nil, p)
    ELSE IF type = 7 THEN get_fixed(buf, p, 12, ObjectIdOf(BytesAt(buf, p, 12)))
    ELSE IF type = 8 THEN get_fixed(buf, p, 1, BoolOf(BytesAt(buf, p, 1)))
    ELSE IF type = 9 THEN get_fixed(buf, p, 8, TimeOf(BytesAt(buf, p, 8)))
    ELSE IF type = 10 THEN Ok(Nil, p)
    ELSE IF type = 11 THEN get_regex(buf, p, opts)
    ELSE IF type = 12 THEN get_dbpointer(buf, p)
    ELSE IF type = 14 THEN get_symbol(buf, p)
    ELSE IF type = 15 THEN get_code(buf, p, opts)
    ELSE IF type = 16 THEN get_fixed(buf, p, 4, SignedOf(BytesAt(buf, p, 4)))
    ELSE IF type = 17 THEN get_fixed(buf, p, 8, TimestampOf(BytesAt(buf, p, 8)))
    ELSE IF type = 18 THEN get_fixed(buf, p, 8, SignedOf(BytesAt(buf, p, 8)))
    ELSE IF type = 127 THEN Ok([t |-> "T_OBJECT", cls |-> "BSON::MaxKey"], p)
    ELSE Fail("TypeError", p)

named(name, r) == IF Stopped(r) THEN r ELSE Ok(<<name, r.value>>, r.position)

\* one element at p: the tag, the key (a C string) and the value; value is <<key, value>>
get_element(buf, p, opts) ==
    IF ~InBuf(buf, p, 1) \/ strlen(buf, p + 1) < 0 THEN OutOfBounds(p)
    ELSE named(BytesAt(buf, p + 1, strlen(buf, p + 1)),
             get_value(buf, p + 1 + strlen(buf, p + 1) + 1, buf[p + 1], opts))

\* lines 793-794: the element r read at p is pushed and the loop goes on after it
array_next(buf, p, end, items, opts, r) ==
    IF Stopped(r) THEN r
    ELSE IF r.position <= p THEN Hang(p)
    ELSE array_loop(buf, r.position, end, Append(items, r.value[2]), opts)

\* lines 981-982: the element r read at p is stored and the loop goes on after it
hash_next(buf, p, end, entries, opts, r) ==
    IF Stopped(r) THEN r
    ELSE IF r.position <= p THEN Hang(p)
    ELSE hash_loop(buf, r.position, end,
             element_assignment(entries, r.value[1], r.value[2]), opts)

\* the loop of lines 787-795, at p with the items items read so far
array_loop(buf, p, end, items, opts) ==
    IF p >= end THEN Ok(items, p)
    ELSE array_next(buf, p, end, items, opts, get_element(buf, p, opts))

\* the loop of lines 975-983, at p with the entries read so far
hash_loop(buf, p, end, entries, opts) ==
    IF p >= end THEN Ok(OrderedHash(entries), p)
    ELSE hash_next(buf, p, end, entries, opts, get_element(buf, p, opts))

elements_to_hash(buf, base, max, opts) == hash_loop(buf, base, base + max, <<>>, opts)

\* deserialize(bson, opts): what it returns, raises or does beyond its input
method_deserialize(bson, opts) == elements_to_hash(bson, 4, Len(bson) - 5, opts)

(***************************************************************************)
(* The values the calls of the model are made with.                        *)
(***************************************************************************)
Hash(entries) == [t |-> "T_HASH", cls |-> "Hash", e |-> entries]
Array(items) == [t |-> "T_ARRAY", a |-> items]
String(s) == [t |-> "T_STRING", s |-> s]
Symbol(s) == [t |-> "T_SYMBOL", s |-> s]
Object(cls) == [t |-> "T_OBJECT", cls |-> cls]
Binary(data, subtype) ==
    [t |-> "T_OBJECT", cls |-> "BSON::Binary", data |-> data, subtype |-> subtype]
ObjectId(bytes) == [t |-> "T_OBJECT", cls |-> "BSON::ObjectId", oid |-> bytes]
DBRef(ns, oid) == [t |-> "T_OBJECT", cls |-> "BSON::DBRef", ns |-> ns, oid |-> oid]
Code(code, scope) == [t |-> "T_OBJECT", cls |-> "BSON::Code", code |-> code, scope |-> scope]
Timestamp(seconds, increment) ==
    [t |-> "T_OBJECT", cls |-> "BSON::Timestamp", seconds |-> seconds,
     increment |-> increment]
Time(sec, usec) == [t |-> "T_DATA", cls |-> "Time", sec |-> sec, usec |-> usec]
Regexp(pattern, flags) ==
    [t |-> "T_REGEXP", pattern |-> pattern, flags |-> flags, has_extra |-> FALSE,
     extra |-> <<>>]
BSONRegex(pattern, flags, extra) ==
    [t |-> "T_OBJECT", cls |-> "BSON::Regex", pattern |-> pattern, flags |-> flags,
     has_extra |-> TRUE, extra |-> extra]
Entry(key, value) == [k |-> key, v |-> value]

Key_a == StrKey(<<97>>)
AnObjectId == ObjectId(<<80, 127, 31, 119, 188, 248, 108, 215, 153, 67, 144, 17>>)

\* integers at and around the limits of int32, of a Fixnum and of int64
IntegerInputs ==
    { Integer(n) : n \in
        { IntOf(0), IntOf(1), IntOf(0 - 1),
          INT_MAX, Pos(<<0, 0, 0, 128>>), INT_MIN, Neg(<<1, 0, 0, 128>>),
          FIXNUM_MAX, Pos(<<0, 0, 0, 0, 0, 0, 0, 64>>), FIXNUM_MIN,
          LLONG_MAX, Pos(<<0, 0, 0, 0, 0, 0, 0, 128>>),
          LLONG_MIN, Neg(<<1, 0, 0, 0, 0, 0, 0, 128>>),
          Pos(<<0, 0, 0, 0, 0, 0, 0, 0, 1>>), Neg(<<0, 0, 0, 0, 0, 0, 0, 0, 1>>) } }

RegexInputs ==
    { Regexp(<<112>>, f) : f \in SUBSET NativeFlags }
    \cup { Regexp(<<112, 0, 113>>, {}) }
    \cup { BSONRegex(<<112>>, f, x) : f \in SUBSET BSONRegexFlags,
                                       x \in {<<>>, <<105>>, <<120, 97>>} }
    \cup { BSONRegex(<<0>>, {}, <<>>) }

ScalarInputs ==
    IntegerInputs
    \cup { [t |-> "T_TRUE"], [t |-> "T_FALSE"], Nil,
           [t |-> "T_FLOAT", bits |-> <<51, 51, 51, 51, 51, 51, 20, 64>>],
           [t |-> "T_FLOAT", bits |-> <<0, 0, 0, 0, 0, 0, 248, 127>>],
           String(<<>>), String(<<119>>), String(<<97, 0, 98>>), String(<<255>>),
           String(<<195, 169>>), Symbol(<<115>>),
           Binary(<<>>, 0), Binary(<<120>>, 0), Binary(<<120, 121>>, 2), Binary(<<120>>, 128),
           [t |-> "T_OBJECT", cls |-> "ByteBuffer", data |-> <<120>>],
           AnObjectId, Object("BSON::MaxKey"), Object("BSON::MinKey"),
           Timestamp(IntOf(1), IntOf(2)), Timestamp(UINT_MAX, IntOf(0)),
           Timestamp(Pos(<<0, 0, 0, 0, 1>>), IntOf(0)),
           Timestamp(IntOf(1), Neg(<<1, 0, 0, 128>>)),
           Time(0, 0), Time(1, 500000), Time(0 - 1, 999000), Time(0 - 2, 0), Time(0, 1500),
           Time(0 - 1, 998500),
           Object("Date"), Object("Rational"), Object("Object"),
           [t |-> "T_DATA", cls |-> "DateTime"], [t |-> "T_DATA", cls |-> "BigDecimal"],
           [t |-> "T_CLASS", cls |-> "Class"],
           [t |-> "T_OBJECT", cls |-> "ActiveSupport::Multibyte::Chars", s |-> <<119>>],
           DBRef(String(<<99>>), AnObjectId), DBRef(String(<<99>>), Integer(IntOf(7))),
           Code(<<102>>, Hash(<<>>)),
           Code(<<102>>, Hash(<<Entry(StrKey(<<36, 120>>), Integer(IntOf(1)))>>)),
           Code(<<102>>, Nil) }

\* the keys of the generated top-level documents: "a", "_id", :_id, "a.b", "$x", "_id\0x"
TopKeys ==
    { Key_a, StrKey(Str_id), SymKey(Str_id), StrKey(<<97, 46, 98>>), StrKey(<<36, 120>>),
      StrKey(<<95, 105, 100, 0, 120>>) }

\* keys that only one-entry documents are generated with: "", "\0", "\xFF", :a, :"$x",
\* "$ref", "_id\0.", :"a\0b" and a key that is neither a string nor a symbol
OddKeys ==
    { StrKey(<<>>), StrKey(<<0>>), StrKey(<<255>>), SymKey(<<97>>), SymKey(<<36, 120>>),
      StrKey(Str_ref), StrKey(<<95, 105, 100, 0, 46>>), SymKey(<<97, 0, 98>>),
      [kt |-> "other", s |-> <<>>] }

Injective(f) == \A i, j \in DOMAIN f : i # j => f[i] # f[j]

\* the documents of up to MaxLen entries with distinct keys of TopKeys, the i-th entry
\* holding the integer i
KeyedDocs ==
    { Hash([i \in DOMAIN ks |-> Entry(ks[i], Integer(IntOf(i)))]) :
        ks \in UNION { { f \in [1..n -> TopKeys] : Injective(f) } : n \in 0..MaxLen } }

\* the containers a nested value is wrapped in, one level deeper each time
Wrappers(x) ==
    { Hash(<<Entry(k, x)>>) :
        k \in { Key_a, StrKey(Str_id), StrKey(Str_ref), StrKey(<<97, 46, 98>>) } }
    \cup { Hash(<<Entry(Key_a, Integer(IntOf(1))), Entry(StrKey(Str_id), x)>>),
           Hash(<<Entry(StrKey(Str_ref), String(<<99>>)), Entry(StrKey(Str_dollar_id), x)>>),
           Array(<<x>>), Array(<<Integer(IntOf(1)), x>>),
           DBRef(String(<<99>>), x),
           Code(<<102>>, Hash(<<Entry(Key_a, x)>>)) }

NestedLeaves ==
    { Integer(IntOf(1)), String(<<99>>), AnObjectId, Hash(<<>>), Array(<<>>) }

\* the values nested at most depth containers deep
RECURSIVE NestedValues(_)
NestedValues(depth) ==
    IF depth = 0 THEN NestedLeaves
    ELSE LET below == NestedValues(depth - 1)
         IN  NestedLeaves \cup UNION { Wrappers(x) : x \in below }

\* every document serialize is called with: one entry "a" with each scalar and each
\* nested value, one entry with each odd key, the documents of the generated key
\* orders, and two values that are no documents
DocInputs ==
    { Hash(<<Entry(Key_a, v)>>) : v \in ScalarInputs \cup RegexInputs }
    \cup { Hash(<<Entry(Key_a, v)>>) : v \in NestedValues(MaxDepth) }
    \cup { Hash(<<Entry(k, Integer(IntOf(1)))>>) : k \in OddKeys }
    \cup KeyedDocs
    \cup { OrderedHash(<<Entry(SymKey(Str_id), Integer(IntOf(1))),
                         Entry(StrKey(Str_id), Integer(IntOf(2)))>>),
           Nil, Integer(IntOf(5)) }

\* 4 * 1024 * 1024, the initial max_bson_size
DefaultMaxBsonSize == 4194304

MaxSizeInputs == {SmallMaxSize, DefaultMaxBsonSize}

(***************************************************************************)
(* ObjectId: legal?, from_string, to_s and generate.  A string is its      *)
(* bytes; the result of a call is [value, err].                            *)
(***************************************************************************)
Returns(v) == [value |-> v, err |-> ""]
Raises(e) == [value |-> Nil, err |-> e]

IsDigit(c) == c >= 48 /\ c <= 57
IsUpperHex(c) == c >= 65 /\ c <= 70
IsLowerHex(c) == c >= 97 /\ c <= 102

\* legal_objectid_str without the range 'A' to 'F'
legal_objectid_str_lower_only(str) ==
    /\ str.t = "T_STRING"
    /\ Len(str.s) = 24
    /\ \A i \in 1..24 : IsDigit(str.s[i]) \/ IsLowerHex(str.s[i])

legal_objectid_str(str) ==
    /\ str.t = "T_STRING"
    /\ Len(str.s) = 24
    /\ \A i \in 1..24 : IsDigit(str.s[i]) \/ IsUpperHex(str.s[i]) \/ IsLowerHex(str.s[i])

\* ObjectId.legal?(str)
objectid_legal(str) == Returns(legal_objectid_str(str))

\* hexbyte without the + 10 of the letters
hexbyte_no_offset(hex) ==
    IF IsDigit(hex) THEN hex - 48
    ELSE IF IsUpperHex(hex) THEN hex - 65
    ELSE IF IsLowerHex(hex) THEN hex - 97
    ELSE 0

hexbyte(hex) ==
    IF IsDigit(hex) THEN hex - 48
    ELSE IF IsUpperHex(hex) THEN hex - 65 + 10
    ELSE IF IsLowerHex(hex) THEN hex - 97 + 10
    ELSE 0

\* a | b on non-negative integers
RECURSIVE BitOr(_, _)
BitOr(a, b) ==
    IF a = 0 THEN b
    ELSE IF b = 0 THEN a
    ELSE 2 * BitOr(a \div 2, b \div 2) + (IF a % 2 = 1 \/ b % 2 = 1 THEN 1 ELSE 0)

\* ObjectId.from_string(str); ObjectId.new(oid) keeps the array as @data
objectid_from_string(str) ==
    IF ~legal_objectid_str(str) THEN Raises("InvalidObjectId")
    ELSE Returns(ObjectId([i \in 1..12 |->
             BitOr(hexbyte(str.s[2 * i - 1]) * 16, hexbyte(str.s[2 * i]))]))

\* one digit of sprintf's %x
HexDigit(n) == IF n < 10 THEN 48 + n ELSE 97 + (n - 10)

\* sprintf("%02x", n) for a byte n
Format02x(n) == <<HexDigit(n \div 16), HexDigit(n % 16)>>

RECURSIVE FormatAll(_)
FormatAll(data) == IF data = <<>> THEN <<>> ELSE Format02x(Head(data)) \o FormatAll(Tail(data))

\* oid.to_s: rb_str_new(cstr, 24) of the twelve bytes of @data printed by sprintf
objectid_to_s(self) == Returns(String(Take(FormatAll(self.oid), 24)))

(***************************************************************************)
(* generate.  An unsigned value is its base-256 digits, least significant  *)
(* first, as many as its type has bytes; a build fixes the sizes of        *)
(* unsigned int and unsigned long and the byte order of the host.          *)
(***************************************************************************)
\* the build of a little-endian host with 4-byte int and 8-byte long
LP64 == [sizeof_unsigned_int |-> 4, sizeof_unsigned_long |-> 8, big_endian |-> FALSE]

Builds ==
    { [sizeof_unsigned_int |-> 4, sizeof_unsigned_long |-> 4, big_endian |-> FALSE],
      [sizeof_unsigned_int |-> 4, sizeof_unsigned_long |-> 8, big_endian |-> FALSE],
      [sizeof_unsigned_int |-> 4, sizeof_unsigned_long |-> 4, big_endian |-> TRUE],
      [sizeof_unsigned_int |-> 4, sizeof_unsigned_long |-> 8, big_endian |-> TRUE],
      [sizeof_unsigned_int |-> 8, sizeof_unsigned_long |-> 8, big_endian |-> FALSE] }

Reverse(s) == [i \in 1..Len(s) |-> s[Len(s) + 1 - i]]

\* the conversion of an unsigned value to an unsigned type of w bytes
Convert(digits, w) == [i \in 1..w |-> IF i <= Len(digits) THEN digits[i] ELSE 0]

\* the bytes of an object at increasing addresses
Memory(digits, build) == IF build.big_endian THEN Reverse(digits) ELSE digits

\* htonl(x), htons(x): the value whose bytes in memory are x most significant first
hton(digits, build) == IF build.big_endian THEN digits ELSE Reverse(digits)

\* MEMCPY(dst, (unsigned char*)&object + offset, unsigned char, n)
MEMCPY(object, offset, n) == SubSeq(object, offset + 1, offset + n)

\* lines 1115-1119: the counter after the increment
increment(inc, build) ==
    IF build.sizeof_unsigned_int = 4 THEN Inc(inc)
    ELSE Convert(Le32((inc[1] + 256 * inc[2] + 65536 * inc[3] + 1) % 16777215),
                 build.sizeof_unsigned_int)

\* lines 1098-1101: the seconds generate stamps the id with
generate_time(args, now) ==
    IF args = <<>> \/ args = <<Nil>> THEN Returns(now)
    ELSE IF args[1].t \notin {"T_FIXNUM", "T_BIGNUM"} THEN Raises("NoMethodError")
    ELSE IF ~NUM2UINT_ok(args[1].n) THEN Raises("RangeError")
    ELSE Returns(TwosComplement(args[1].n, 4))

\* lines 1102-1127: the twelve bytes of the id, from the seconds and the counter
oid_bytes(seconds, digest, process, inc, build) ==
    MEMCPY(Memory(Convert(hton(seconds, build), build.sizeof_unsigned_long), build), 0, 4)
    \o MEMCPY(digest, 0, 3)
    \o MEMCPY(Memory(hton(Convert(process, 2), build), build), 0, 2)
    \o MEMCPY(Memory(Convert(hton(Convert(inc, 4), build), build.sizeof_unsigned_long),
                     build), 1, 3)

(***************************************************************************)
(* The facade's cap: max_bson_size and update_max_bson_size.               *)
(***************************************************************************)
\* FIX2INT of a Fixnum that fits an int
FIX2INT(x) == Int32At(TwosComplement(x.n, 4))

\* update_max_bson_size that stores the initial cap whatever the connection supplies
connection_max_bson_size_initial(connection) == DefaultMaxBsonSize

\* line 1131: the value update_max_bson_size stores in max_bson_size
connection_max_bson_size(connection) == FIX2INT(connection.max_bson_size)

\* line 1132: INT2FIX(max_bson_size) after the store
method_update_max_bson_size(stored) == Returns(stored)

\* CBson.max_bson_size
method_max_bson_size(stored) == Returns(stored)

(***************************************************************************)
(* The values the ObjectId and facade calls of the model are made with.    *)
(***************************************************************************)
\* callers that may be inside generate at once, and ids a behaviour generates
MaxThreads == 2
MaxIds == 3

Threads == 1..MaxThreads

\* characters at and around the ends of 0-9, A-F and a-f
HexEdgeChars == {47, 48, 53, 57, 58, 64, 65, 70, 71, 96, 97, 102, 103}

\* n times the two characters c and d
Pairs(c, d, n) == [i \in 1..(2 * n) |-> IF i % 2 = 1 THEN c ELSE d]

\* "507f1f77bcf86cd799439011" and the same id in upper and in mixed case
HexExample ==
    <<53, 48, 55, 102, 49, 102, 55, 55, 98, 99, 102, 56,
      54, 99, 100, 55, 57, 57, 52, 51, 57, 48, 49, 49>>
HexExampleUpper ==
    <<53, 48, 55, 70, 49, 70, 55, 55, 66, 67, 70, 56,
      54, 67, 68, 55, 57, 57, 52, 51, 57, 48, 49, 49>>
HexExampleMixed ==
    <<53, 48, 55, 70, 49, 102, 55, 55, 98, 67, 102, 56,
      54, 99, 68, 55, 57, 57, 52, 51, 57, 48, 49, 49>>

StringArgs ==
    { String(Pairs(c, d, 12)) : c \in HexEdgeChars, d \in HexEdgeChars }
    \cup { String(s) : s \in {HexExample, HexExampleUpper, HexExampleMixed} }
    \cup { String(Pairs(48, 97, n)) : n \in {0, 11, 13} }
    \cup { String(Take(HexExample, 23)), String(HexExample \o <<48>>),
           String(Take(HexExample, 23) \o <<0>>), String(<<0>> \o Take(HexExample, 23)) }

\* arguments that are no strings
OtherArgs == { Nil, Integer(IntOf(24)), Symbol(HexExample), Array(<<String(HexExample)>>) }

ObjectIdInputs ==
    { ObjectId(Pairs(c, d, 6)) : c \in {0, 9, 10, 15, 16, 255}, d \in {0, 160, 255} }
    \cup { AnObjectId }

\* the counter after no call, and shortly before the values it may wrap at
CounterStarts(build) ==
    IF build.sizeof_unsigned_int = 4
    THEN { <<0, 0, 0, 0>>, <<254, 255, 255, 0>>, <<254, 255, 255, 255>> }
    ELSE { Convert(inc, build.sizeof_unsigned_int) :
               inc \in { <<0, 0, 0>>, <<253, 255, 255>> } }

\* the first three bytes of the MD5 digest of the host name, and the process id
DigestInputs == { <<212, 29, 140, 217>> }
PidInputs == { <<57, 48>>, <<1, 0, 1>> }

\* the seconds of the clock, and the arguments of generate
ClockInputs == { <<17, 144, 67, 80>> }
GenerateArgs ==
    { <<>>, <<Nil>>, <<Integer(IntOf(86400))>>,
      <<Integer(Pos(<<0, 0, 0, 0, 1>>))>>, <<Array(<<>>)>> }

\* what the connection answers to max_bson_size
Connection(n) == [t |-> "T_OBJECT", cls |-> "Mongo::Connection", max_bson_size |-> n]
ConnectionInputs ==
    { Connection(Integer(n)) : n \in { IntOf(1), IntOf(16777216), INT_MAX } }

(***************************************************************************)
(* deserialize on bytes of the caller: frames with every tag at the top,   *)
(* in an embedded document, in an array and between other elements, the   *)
(* same cut short, and frames whose lengths or terminators are wrong.      *)
(***************************************************************************)
Frame(elements) == Le32(Len(elements) + 5) \o elements \o <<0>>
Element(tag, name, payload) == <<tag>> \o name \o <<0>> \o payload

TagInputs == (0..19) \cup {126, 127, 128, 254, 255}

StringPayload == Le32(2) \o <<120, 0>>
Int32Payload == Le32(1)

\* a well-formed value of the tag, and no bytes for a tag without a known layout
Payload(tag) ==
    IF tag \in {1, 9, 17, 18} THEN <<1, 0, 0, 0, 0, 0, 0, 0>>
    ELSE IF tag \in {2, 13, 14} THEN StringPayload
    ELSE IF tag = 3 THEN Frame(Element(16, <<98>>, Int32Payload))
    ELSE IF tag = 4 THEN Frame(Element(16, <<48>>, Int32Payload))
    ELSE IF tag = 5 THEN Le32(1) \o <<0, 120>>
    ELSE IF tag = 7 THEN AnObjectId.oid
    ELSE IF tag = 8 THEN <<1>>
    ELSE IF tag = 11 THEN <<112, 0, 105, 0>>
    ELSE IF tag = 12 THEN StringPayload \o AnObjectId.oid
    ELSE IF tag = 15 THEN Le32(4 + Len(StringPayload) + 5) \o StringPayload \o Frame(<<>>)
    ELSE IF tag = 16 THEN Int32Payload
    ELSE <<>>

\* one element of the tag: alone, in an embedded document, in an array, in the scope of
\* a code, between two other elements, and as the "$ref" of an embedded document
TopFrame(tag) == Frame(Element(tag, <<97>>, Payload(tag)))
EmbeddedFrame(tag) == Frame(Element(3, <<97>>, TopFrame(tag)))
ArrayFrame(tag) == Frame(Element(4, <<97>>, Frame(Element(tag, <<48>>, Payload(tag)))))
ScopeFrame(tag) ==
    Frame(Element(15, <<97>>, Le32(4 + Len(StringPayload) + Len(TopFrame(tag)))
                              \o StringPayload \o TopFrame(tag)))
BetweenFrame(tag) ==
    Frame(Element(16, <<97>>, Int32Payload) \o Element(tag, <<98>>, Payload(tag))
          \o Element(8, <<99>>, <<1>>))
RefFrame(tag) ==
    Frame(Element(3, <<97>>, Frame(Element(tag, Str_ref, StringPayload)
                                   \o Element(7, Str_dollar_id, AnObjectId.oid))))

FramesOf(tag) ==
    { TopFrame(tag), EmbeddedFrame(tag), ArrayFrame(tag), ScopeFrame(tag),
      BetweenFrame(tag), RefFrame(tag) }

\* a frame cut short after each of its bytes
Truncated(frame) == { Take(frame, n) : n \in 0..(Len(frame) - 1) }

\* a string and a binary whose length points past the frame, an embedded document and
\* an array whose size does, a key without its NUL, an embedded empty document
BrokenFrames ==
    { Frame(Element(2, <<97>>, Le32(255) \o <<120, 0>>)),
      Frame(Element(5, <<97>>, Le32(255) \o <<0, 120>>)),
      Frame(Element(3, <<97>>, Le32(255) \o <<0>>)),
      Frame(Element(4, <<97>>, Le32(255) \o <<0>>)),
      Le32(8) \o <<16, 97, 97, 97>>,
      Frame(Element(3, <<97>>, Frame(<<>>))),
      Le32(12) \o Element(3, <<97>>, Frame(<<>>)) }

FrameInputs ==
    UNION { FramesOf(tag) : tag \in TagInputs }
    \cup UNION { Truncated(TopFrame(tag)) : tag \in TagInputs }
    \cup UNION { Truncated(frame) : frame \in FramesOf(16) }
    \cup BrokenFrames

(***************************************************************************)
(* The state.  The codec: one call of serialize, with its arguments, and   *)
(* one call of deserialize, on the bytes serialize returned or on bytes    *)
(* the caller made up.  The process: the build, the statics of the         *)
(* extension (hostname_digest, object_id_inc, max_bson_size), the callers  *)
(* of generate, and the last ObjectId or facade call with its result.      *)
(***************************************************************************)
VARIABLES
    pc,          \* "call": serialize is about to run; "serialized"; "deserialized";
                 \* "bytes": deserialize is about to run on bson; "idle": neither
    doc,         \* the document given to serialize
    check_keys,  \* its check_keys argument
    move_id,     \* its move_id argument
    max_size,    \* its max_size argument
    ret,         \* what serialize returned and did: [result, err, frees, log]
    doc_after,   \* the document as serialize left it
    opts,        \* the options given to deserialize
    dec,         \* what deserialize returned: [value, position, err, oob, hang]
    bson,        \* the bytes a caller gives to deserialize
    build,       \* the build of the extension
    hostname_digest,  \* set once by Init_cbson
    pid,         \* getpid(), as digits
    object_id_inc,    \* the counter of generate, as digits
    max_bson_size,    \* the cap the facade stores
    callers,     \* the threads that call generate
    inputs,      \* the arguments the callers give: [strings, oids]
    tpc,         \* per thread: "idle", or "timed" once generate has its seconds
    tsec,        \* per thread: the seconds generate stamps its id with
    generated,         \* the ids generate returned, in the order of the counter
    supplied,    \* the values the connection supplied to update_max_bson_size
    last         \* the last ObjectId or facade call: [op, arg, from, value, err]

codec_vars == <<pc, doc, check_keys, move_id, max_size, ret, doc_after, opts, dec, bson>>
generate_vars == <<object_id_inc, tpc, tsec, generated>>
process_vars == <<build, hostname_digest, pid, callers, inputs>>
vars == <<codec_vars, generate_vars, process_vars, max_bson_size, supplied, last>>

NoReturn == [result |-> <<>>, err |-> "", frees |-> 0, log |-> <<>>]
NoOpts == [compile_regex |-> TRUE]
NoCall == [op |-> "", arg |-> Nil, from |-> Nil, value |-> Nil, err |-> ""]
Call(op, arg, from, r) ==
    [op |-> op, arg |-> arg, from |-> from, value |-> r.value, err |-> r.err]

\* the process after Init_cbson, on some build, with its counter at inc
ProcessInit(builds, threads, arguments) ==
    /\ build \in builds
    /\ hostname_digest \in DigestInputs
    /\ pid \in PidInputs
    /\ object_id_inc \in CounterStarts(build)
    /\ max_bson_size = DefaultMaxBsonSize
    /\ callers = threads
    /\ inputs = arguments
    /\ tpc = [t \in Threads |-> "idle"]
    /\ tsec = [t \in Threads |-> <<>>]
    /\ generated = <<>>
    /\ supplied = <<>>
    /\ last = NoCall

\* a process with no ObjectId and no facade call
ProcessAtRest ==
    /\ build = LP64
    /\ hostname_digest = <<212, 29, 140, 217>>
    /\ pid = <<57, 48>>
    /\ object_id_inc = <<0, 0, 0, 0>>
    /\ max_bson_size = DefaultMaxBsonSize
    /\ callers = {}
    /\ inputs = [strings |-> {}, oids |-> {}]
    /\ tpc = [t \in Threads |-> "idle"]
    /\ tsec = [t \in Threads |-> <<>>]
    /\ generated = <<>>
    /\ supplied = <<>>
    /\ last = NoCall

\* one call of serialize on doc
CodecInit(docs) ==
    /\ pc = "call"
    /\ doc \in docs
    /\ check_keys \in BOOLEAN
    /\ move_id \in BOOLEAN
    /\ max_size \in MaxSizeInputs
    /\ ret = NoReturn
    /\ doc_after = doc
    /\ opts = NoOpts
    /\ dec = Ok(Nil, 0)
    /\ bson = <<>>

\* no call of the codec
CodecAtRest ==
    /\ pc = "idle"
    /\ doc = Nil
    /\ check_keys = FALSE
    /\ move_id = FALSE
    /\ max_size = DefaultMaxBsonSize
    /\ ret = NoReturn
    /\ doc_after = Nil
    /\ opts = NoOpts
    /\ dec = Ok(Nil, 0)
    /\ bson = <<>>

Init == CodecInit(DocInputs) /\ ProcessAtRest

\* CBson.serialize(doc, check_keys, move_id, max_size)
Serialize ==
    /\ pc = "call"
    /\ pc' = "serialized"
    /\ ret' = method_serialize(doc, check_keys, move_id, max_size)
    /\ doc_after' = hash_after_write_doc(doc, move_id)
    /\ UNCHANGED <<doc, check_keys, move_id, max_size, opts, dec, bson>>
    /\ UNCHANGED <<generate_vars, process_vars, max_bson_size, supplied, last>>

\* CBson.deserialize(bson, opts) on the bytes serialize returned
Deserialize ==
    /\ pc = "serialized"
    /\ ret.err = ""
    /\ pc' = "deserialized"
    /\ \E compile_regex \in BOOLEAN :
        /\ opts' = [compile_regex |-> compile_regex]
        /\ dec' = method_deserialize(ret.result, opts')
    /\ UNCHANGED <<doc, check_keys, move_id, max_size, ret, doc_after, bson>>
    /\ UNCHANGED <<generate_vars, process_vars, max_bson_size, supplied, last>>

Next == Serialize \/ Deserialize

Spec == Init /\ [][Next]_vars

(***************************************************************************)
(* The calls of ObjectId and of the facade's cap.                          *)
(***************************************************************************)
\* generate, lines 1098-1101: the caller gets its seconds; to_i runs host code, so
\* other callers may run before the rest of the call
GenerateTime ==
    \E t \in callers, args \in GenerateArgs, now \in ClockInputs :
        /\ tpc[t] = "idle"
        /\ Len(generated) + Cardinality({u \in Threads : tpc[u] = "timed"}) < MaxIds
        /\ IF generate_time(args, now).err # ""
           THEN /\ last' = Call("generate", Nil, Nil, generate_time(args, now))
                /\ UNCHANGED <<tpc, tsec>>
           ELSE /\ tpc' = [tpc EXCEPT ![t] = "timed"]
                /\ tsec' = [tsec EXCEPT ![t] = generate_time(args, now).value]
                /\ UNCHANGED last
        /\ UNCHANGED <<codec_vars, process_vars, object_id_inc, generated, max_bson_size, supplied>>

\* generate, lines 1102-1127: no host code runs between the increment of the counter
\* and the copy of its bytes, so under the interpreter lock the rest is one step
GenerateId ==
    \E t \in callers :
        /\ tpc[t] = "timed"
        /\ object_id_inc' = increment(object_id_inc, build)
        /\ generated' = Append(generated, [caller |-> t, before |-> object_id_inc,
                               after |-> object_id_inc',
                               oid |-> oid_bytes(tsec[t], hostname_digest, pid,
                                                 object_id_inc', build)])
        /\ tpc' = [tpc EXCEPT ![t] = "idle"]
        /\ tsec' = [tsec EXCEPT ![t] = <<>>]
        /\ UNCHANGED <<codec_vars, process_vars, max_bson_size, supplied, last>>

\* ObjectId.legal?(str)
Legal ==
    \E str \in inputs.strings :
        /\ last' = Call("legal?", str, Nil, objectid_legal(str))
        /\ UNCHANGED <<codec_vars, process_vars, generate_vars, max_bson_size, supplied>>

\* ObjectId.from_string(str), on a string of the caller or on what to_s returned
FromString ==
    /\ \/ \E str \in inputs.strings :
            last' = Call("from_string", str, Nil, objectid_from_string(str))
       \/ /\ last.op = "to_s"
          /\ last' = Call("from_string", last.value, last.arg,
                          objectid_from_string(last.value))
    /\ UNCHANGED <<codec_vars, process_vars, generate_vars, max_bson_size, supplied>>

\* oid.to_s, on an id of the caller or on what from_string returned
ToS ==
    /\ \/ \E oid \in inputs.oids :
            last' = Call("to_s", oid, Nil, objectid_to_s(oid))
       \/ /\ last.op = "from_string"
          /\ last.err = ""
          /\ last' = Call("to_s", last.value, last.arg, objectid_to_s(last.value))
    /\ UNCHANGED <<codec_vars, process_vars, generate_vars, max_bson_size, supplied>>

\* CBson.update_max_bson_size(connection)
UpdateMaxBsonSize ==
    \E connection \in ConnectionInputs :
        /\ max_bson_size' = connection_max_bson_size(connection)
        /\ supplied' = <<connection.max_bson_size>>
        /\ last' = Call("update_max_bson_size", connection, Nil,
                        method_update_max_bson_size(max_bson_size'))
        /\ UNCHANGED <<codec_vars, process_vars, generate_vars>>

\* CBson.max_bson_size
MaxBsonSize ==
    /\ last' = Call("max_bson_size", Nil, Nil, method_max_bson_size(max_bson_size))
    /\ UNCHANGED <<codec_vars, process_vars, generate_vars, max_bson_size, supplied>>

\* generate under parallel callers, on every build
InitGenerate == CodecAtRest /\ ProcessInit(Builds, Threads, [strings |-> {}, oids |-> {}])
NextGenerate == GenerateTime \/ GenerateId
SpecGenerate == InitGenerate /\ [][NextGenerate]_vars

\* legal?, from_string and to_s
InitObjectId ==
    /\ CodecAtRest
    /\ ProcessInit({LP64}, {}, [strings |-> StringArgs \cup OtherArgs,
                                oids |-> ObjectIdInputs])
    /\ pid = <<57, 48>>
    /\ object_id_inc = <<0, 0, 0, 0>>
NextObjectId == Legal \/ FromString \/ ToS
SpecObjectId == InitObjectId /\ [][NextObjectId]_vars

\* CBson.deserialize(bson, opts) on bytes of the caller
DeserializeBytes ==
    /\ pc = "bytes"
    /\ pc' = "deserialized"
    /\ \E compile_regex \in BOOLEAN :
        /\ opts' = [compile_regex |-> compile_regex]
        /\ dec' = method_deserialize(bson, opts')
    /\ UNCHANGED <<doc, check_keys, move_id, max_size, ret, doc_after, bson>>
    /\ UNCHANGED <<generate_vars, process_vars, max_bson_size, supplied, last>>

\* deserialize on any bytes
InitDeserialize ==
    /\ pc = "bytes"
    /\ bson \in FrameInputs
    /\ doc = Nil
    /\ check_keys = FALSE
    /\ move_id = FALSE
    /\ max_size = DefaultMaxBsonSize
    /\ ret = NoReturn
    /\ doc_after = Nil
    /\ opts = NoOpts
    /\ dec = Ok(Nil, 0)
    /\ ProcessAtRest
NextDeserialize == DeserializeBytes
SpecDeserialize == InitDeserialize /\ [][NextDeserialize]_vars

\* the facade: every call of the extension, by one caller
FacadeDocs == { Hash(<<Entry(Key_a, Integer(IntOf(1)))>>), Nil }
InitFacade ==
    /\ CodecInit(FacadeDocs)
    /\ check_keys = FALSE
    /\ max_size = DefaultMaxBsonSize
    /\ ProcessInit({LP64}, {1}, [strings |-> {String(HexExample), Nil},
                                 oids |-> {AnObjectId}])
    /\ pid = <<57, 48>>
    /\ object_id_inc = <<0, 0, 0, 0>>
NextFacade ==
    \/ Serialize
    \/ Deserialize
    \/ GenerateTime
    \/ GenerateId
    \/ Legal
    \/ FromString
    \/ ToS
    \/ UpdateMaxBsonSize
    \/ MaxBsonSize
SpecFacade == InitFacade /\ [][NextFacade]_vars

(***************************************************************************)
(* The properties claimed of the codec.                                    *)
(***************************************************************************)
Returned == pc # "call" /\ ret.err = ""
Failed(e) == pc # "call" /\ ret.err = e

\* the number of bytes the value of an element of tag tag takes at offset p of buf, by
\* the layout of each type of the data model
ValueSize(buf, p, tag) ==
    IF tag \in {1, 9, 17, 18} THEN 8
    ELSE IF tag \in {2, 13, 14} THEN 4 + Int32At(BytesAt(buf, p, 4))
    ELSE IF tag \in {3, 4, 15} THEN Int32At(BytesAt(buf, p, 4))
    ELSE IF tag = 5 THEN 5 + Int32At(BytesAt(buf, p, 4))
    ELSE IF tag = 7 THEN 12
    ELSE IF tag = 8 THEN 1
    ELSE IF tag = 11 THEN strlen(buf, p) + 1 + strlen(buf, p + strlen(buf, p) + 1) + 1
    ELSE IF tag = 12 THEN 4 + Int32At(BytesAt(buf, p, 4)) + 12
    ELSE IF tag = 16 THEN 4
    ELSE 0

\* the elements written from offset p up to offset end of buf, one for one and in the
\* order written: the tag, the name and the offset of the value of each
RECURSIVE ElementsFrom(_, _, _)
ElementsFrom(buf, p, end) ==
    IF p >= end THEN <<>>
    ELSE LET at == p + 1 + strlen(buf, p + 1) + 1
         IN  <<[tag |-> buf[p + 1], name |-> BytesAt(buf, p + 1, strlen(buf, p + 1)),
                at |-> at]>>
             \o ElementsFrom(buf, at + ValueSize(buf, at, buf[p + 1]), end)

\* the elements of the frame that begins at offset p of buf
Elements(buf, p) == ElementsFrom(buf, p + 4, p + Int32At(BytesAt(buf, p, 4)) - 1)

Names(elements) == [i \in 1..Len(elements) |-> elements[i].name]

\* the values a round trip is claimed for: Double, String, Document, Array, Binary,
\* ObjectId, Bool, UTCDateTime of whole milliseconds, Null, Int32/Int64, Timestamp
\* (two unsigned 32-bit fields), MinKey and MaxKey
RECURSIVE Lossless(_)
Lossless(v) ==
    IF v.t \in {"T_FLOAT", "T_STRING", "T_TRUE", "T_FALSE", "T_NIL", "T_FIXNUM", "T_BIGNUM"}
        THEN TRUE
    ELSE IF v.t = "T_HASH" THEN \A i \in 1..Len(v.e) : Lossless(v.e[i].v)
    ELSE IF v.t = "T_ARRAY" THEN \A i \in 1..Len(v.a) : Lossless(v.a[i])
    ELSE IF v.t = "T_OBJECT" /\ v.cls = "BSON::Timestamp"
        THEN /\ ~v.seconds.neg /\ ~IntLt(UINT_MAX, v.seconds)
             /\ ~v.increment.neg /\ ~IntLt(UINT_MAX, v.increment)
    ELSE IF v.t = "T_OBJECT"
        THEN v.cls \in {"BSON::Binary", "BSON::ObjectId", "BSON::MinKey", "BSON::MaxKey"}
    ELSE IF v.t = "T_DATA" THEN v.cls = "Time" /\ v.usec % 1000 = 0
    ELSE FALSE

\* the name an entry is written under
NameOf(k) == k.s

\* a key of some document of v, at any depth, contains a NUL byte
RECURSIVE HasNulKey(_)
HasNulKey(v) ==
    IF v.t = "T_HASH"
        THEN \E i \in 1..Len(v.e) : HasByte(v.e[i].k.s, 0) \/ HasNulKey(v.e[i].v)
    ELSE IF v.t = "T_ARRAY" THEN \E i \in 1..Len(v.a) : HasNulKey(v.a[i])
    ELSE IF v.t = "T_OBJECT" /\ v.cls = "BSON::Code" THEN HasNulKey(v.scope)
    ELSE IF v.t = "T_OBJECT" /\ v.cls = "BSON::DBRef" THEN HasNulKey(v.oid)
    ELSE FALSE

\* the value d is compared with: every document an ordered hash, every key by its name
RECURSIVE Canon(_)
Canon(v) ==
    IF v.t = "T_HASH"
        THEN OrderedHash([i \in 1..Len(v.e) |->
                 [k |-> StrKey(NameOf(v.e[i].k)),
                  v |-> Canon(v.e[i].v)]])
    ELSE IF v.t = "T_ARRAY" THEN Array([i \in 1..Len(v.a) |-> Canon(v.a[i])])
    ELSE v

RoundTrips == ~Stopped(dec) /\ dec.value = Canon(doc)

\* no document of v has two keys of the same name (a string and a symbol)
RECURSIVE DistinctNames(_)
DistinctNames(v) ==
    IF v.t = "T_HASH"
        THEN /\ \A i, j \in 1..Len(v.e) : NameOf(v.e[i].k) = NameOf(v.e[j].k) => i = j
             /\ \A i \in 1..Len(v.e) : DistinctNames(v.e[i].v)
    ELSE IF v.t = "T_ARRAY" THEN \A i \in 1..Len(v.a) : DistinctNames(v.a[i])
    ELSE TRUE

\* no document of v, v included, has "$ref" as its first key
RECURSIVE NoRefFirst(_)
NoRefFirst(v) ==
    IF v.t = "T_HASH"
        THEN /\ (v.e = <<>> \/ v.e[1].k # StrKey(Str_ref))
             /\ \A i \in 1..Len(v.e) : NoRefFirst(v.e[i].v)
    ELSE IF v.t = "T_ARRAY" THEN \A i \in 1..Len(v.a) : NoRefFirst(v.a[i])
    ELSE TRUE

NoEmbeddedRefFirst(d) == \A i \in 1..Len(d.e) : NoRefFirst(d.e[i].v)

C2_FrameLength ==
    Returned =>
        /\ Len(ret.result) >= 5
        /\ Int32At(Take(ret.result, 4)) = Len(ret.result)
        /\ ret.result[Len(ret.result)] = 0

\* a document with an embedded document was returned
C2_Witness ==
    /\ Returned /\ Len(doc.e) = 1 /\ doc.e[1].v.t = "T_HASH"
    /\ Len(ret.result) > 5
    /\ Int32At(Take(ret.result, 4)) = Len(ret.result)

\* the call with the same document and flags under the initial max_bson_size
Unlimited == method_serialize(doc, check_keys, move_id, DefaultMaxBsonSize)

\* C3: a call on a document whose encoding would be longer than max_size fails with
\* InvalidDocument and returns no bytes, and what a call returns is never longer than
\* its max_size
C3_MaxSize ==
    /\ (pc # "call" /\ Unlimited.err = "" /\ Len(Unlimited.result) > max_size)
        => (ret.err = "InvalidDocument" /\ ret.result = <<>>)
    /\ Returned => Len(ret.result) <= max_size

\* a document that encodes to more than SmallMaxSize bytes was refused under it
C3_Witness ==
    /\ pc = "serialized" /\ max_size = SmallMaxSize
    /\ Unlimited.err = "" /\ Len(Unlimited.result) > max_size
    /\ ret.err = "InvalidDocument" /\ ret.result = <<>>

\* C4: every serialize call, whether it returns bytes or fails with whatever error,
\* has released the buffer it created exactly once when control is back at the caller
C4_BufferReleasedOnce == pc # "call" => ret.frees = 1

\* the document {"a" => v} of one integer v
IsIntegerDoc ==
    /\ doc.t = "T_HASH" /\ Len(doc.e) = 1 /\ doc.e[1].k = Key_a
    /\ doc.e[1].v.t \in {"T_FIXNUM", "T_BIGNUM"}

InInt32(v) == ~IntLt(v, INT_MIN) /\ ~IntLt(INT_MAX, v)
InInt64(v) == ~IntLt(v, LLONG_MIN) /\ ~IntLt(LLONG_MAX, v)

\* what serialize returns for {"a" => v} when v is written with tag tag in w bytes
IntegerFrame(v, tag, w) == Le32(8 + w) \o <<tag, 97, 0>> \o TwosComplement(v, w) \o <<0>>

\* C5: an integer v is written with tag 0x10 in 4 bytes iff -2^31 <= v <= 2^31-1, with
\* tag 0x12 in 8 bytes iff it is outside that range and within [-2^63, 2^63-1], and
\* serialize fails with RangeError iff v is outside [-2^63, 2^63-1]; 2147483647 and
\* -2147483648 are Int32, 2147483648 is Int64 and 2^63 fails
C5_IntegerWidth ==
    (pc # "call" /\ IsIntegerDoc /\ max_size = DefaultMaxBsonSize) =>
        LET v == doc.e[1].v.n
        IN  /\ (ret.err = "RangeError") <=> ~InInt64(v)
            /\ (ret.err = "" /\ ret.result[5] = 16) <=> InInt32(v)
            /\ (ret.err = "" /\ ret.result[5] = 18) <=> (InInt64(v) /\ ~InInt32(v))
            /\ InInt32(v) => ret.result = IntegerFrame(v, 16, 4)
            /\ (InInt64(v) /\ ~InInt32(v)) => ret.result = IntegerFrame(v, 18, 8)
            /\ v \in {INT_MAX, INT_MIN} => ret.result[5] = 16
            /\ v = Pos(<<0, 0, 0, 128>>) => ret.result[5] = 18
            /\ v = Pos(<<0, 0, 0, 0, 0, 0, 0, 128>>) => ret.err = "RangeError"

\* 2147483648 was written as an Int64
C5_Witness ==
    /\ pc = "serialized" /\ IsIntegerDoc /\ max_size = DefaultMaxBsonSize
    /\ doc.e[1].v.n = Pos(<<0, 0, 0, 128>>)
    /\ ret.result = <<16, 0, 0, 0, 18, 97, 0, 0, 0, 0, 128, 0, 0, 0, 0, 0>>

BadName(name) == (Len(name) > 0 /\ name[1] = 36) \/ HasByte(name, 46)

\* some key of v, or of a document reached from v through documents and arrays,
\* begins with '$' or contains '.'
RECURSIVE HasBadKey(_)
HasBadKey(v) ==
    IF v.t = "T_HASH"
        THEN \E i \in 1..Len(v.e) :
                 (v.e[i].k.kt \in {"string", "symbol"} /\ BadName(NameOf(v.e[i].k)))
                 \/ HasBadKey(v.e[i].v)
    ELSE IF v.t = "T_ARRAY" THEN \E i \in 1..Len(v.a) : HasBadKey(v.a[i])
    ELSE FALSE

\* the call with the same document, move_id and max_size and check_keys = false
Unchecked == method_serialize(doc, FALSE, move_id, max_size)

\* C6: with check_keys = true serialize fails with InvalidKeyName whenever a key of the
\* document, or of a document embedded in it through documents and arrays at any
\* depth, begins with '$' or contains '.', and with check_keys = false the same
\* document is serialized
C6_CheckKeys ==
    (pc # "call" /\ HasBadKey(doc) /\ Unchecked.err = "") =>
        IF check_keys THEN ret.err = "InvalidKeyName" ELSE ret.err = ""

\* the document {"a" => r} of one DBRef r
IsDBRefDoc ==
    /\ doc.t = "T_HASH" /\ Len(doc.e) = 1 /\ doc.e[1].k = Key_a
    /\ doc.e[1].v.t = "T_OBJECT" /\ doc.e[1].v.cls = "BSON::DBRef"

\* C7: a DBRef is serialized even with check_keys = true, as an embedded document (tag
\* 0x03) whose elements are "$ref" with the namespace and then "$id" with the object
\* id, the key check not being applied to these two keys
C7_DBRef ==
    (pc # "call" /\ IsDBRefDoc /\ check_keys /\ max_size = DefaultMaxBsonSize) =>
        LET ns == doc.e[1].v.ns.s
            oid == doc.e[1].v.oid
        IN  /\ ret.err = ""
            /\ ret.result[5] = 3
            /\ Int32At(BytesAt(ret.result, 7, 4)) = Len(ret.result) - 8
            /\ BytesAt(ret.result, 11, 11 + Len(ns))
                   = <<2>> \o Str_ref \o <<0>> \o Le32(Len(ns) + 1) \o ns \o <<0>>
            /\ BytesAt(ret.result, 23 + Len(ns), 4) = Str_dollar_id \o <<0>>
            /\ Names(Elements(ret.result, 7)) = <<Str_ref, Str_dollar_id>>
            /\ oid = AnObjectId =>
                   /\ Elements(ret.result, 7)[2].tag = 7
                   /\ BytesAt(ret.result, Elements(ret.result, 7)[2].at, 12) = oid.oid

\* the DBRef of an ObjectId was written under check_keys = true
C7_Witness ==
    /\ pc = "serialized" /\ IsDBRefDoc /\ check_keys /\ max_size = DefaultMaxBsonSize
    /\ doc.e[1].v.oid = AnObjectId
    /\ ret.err = ""
    /\ Names(Elements(ret.result, 7)) = <<Str_ref, Str_dollar_id>>

IsId(k) == k \in {StrKey(Str_id), SymKey(Str_id)}

\* C8: with move_id = true, for every document that has an `_id` entry, under the
\* string or the symbol key, the first element of the serialized document is the
\* `_id` element and the remaining entries follow in document order
C8_IdFirst ==
    (Returned /\ move_id /\ \E i \in 1..Len(doc.e) : IsId(doc.e[i].k)) =>
        LET rest == SelectSeq(doc.e, LAMBDA en : ~IsId(en.k))
        IN  Names(Elements(ret.result, 0))
                = <<Str_id>> \o [i \in 1..Len(rest) |-> rest[i].k.s]

\* C9: when the document holds both "_id" and :_id, the serialized document has
\* exactly one element named `_id`, and its value is the one stored under the symbol
\* key, for move_id = true and for move_id = false
C9_OneId ==
    (Returned /\ has_key(doc, StrKey(Str_id)) /\ has_key(doc, SymKey(Str_id))) =>
        LET ids == SelectSeq(Elements(ret.result, 0), LAMBDA el : el.name = Str_id)
        IN  /\ Len(ids) = 1
            /\ get_value(ret.result, ids[1].at, ids[1].tag, NoOpts).value
                   = rb_hash_aref(doc, SymKey(Str_id))

\* the document {"a" => r} of one regex r, native or BSON::Regex
IsRegexDoc ==
    /\ doc.t = "T_HASH" /\ Len(doc.e) = 1 /\ doc.e[1].k = Key_a
    /\ \/ doc.e[1].v.t = "T_REGEXP"
       \/ doc.e[1].v.t = "T_OBJECT" /\ doc.e[1].v.cls = "BSON::Regex"

\* C10: for every regex value that serialize accepts, the flag cstring written after
\* the pattern has its bytes in strictly increasing order and only bytes of
\* {i, l, m, s, u, x}
C10_SortedFlags ==
    (Returned /\ IsRegexDoc) =>
        LET flags_str == get_regex(ret.result, 7, NoOpts).value.flags_str
        IN  /\ \A i \in 1..(Len(flags_str) - 1) : flags_str[i] < flags_str[i + 1]
            /\ \A i \in 1..Len(flags_str) : flags_str[i] \in {105, 108, 109, 115, 117, 120}


\* bytes 9..11 of an id as a number, least significant digit first
CounterOf(oid) == <<oid[12], oid[11], oid[10]>>

\* C11: any two consecutive ids generated in a process carry the same bytes 4..8,
\* and the counter in bytes 9..11 of the second is the counter of the first plus 1
\* modulo 2^24, so that the counter wraps from 2^24-1 to 0 and nowhere else.
C11_CounterStep ==
    \A i \in 1..(Len(generated) - 1) :
        /\ SubSeq(generated[i].oid, 5, 9) = SubSeq(generated[i + 1].oid, 5, 9)
        /\ CounterOf(generated[i + 1].oid) = Inc(CounterOf(generated[i].oid))

\* C12: under parallel callers of generate no update of the counter is lost: every
\* call finds the counter as the call before it left it and leaves its low 24 bits
\* one higher, so n calls advance it by n, and no two ids of the process carry the
\* same counter bytes 9..11.
C12_AtomicIncrement ==
    /\ \A i \in 1..Len(generated) :
        /\ Take(generated[i].after, 3) = Inc(Take(generated[i].before, 3))
        /\ i > 1 => generated[i].before = generated[i - 1].after
    /\ \A i \in 1..Len(generated) : \A j \in 1..Len(generated) :
        i # j => CounterOf(generated[i].oid) # CounterOf(generated[j].oid)

HexChars == (48..57) \cup (65..70) \cup (97..102)
LowerHexChars == (48..57) \cup (97..102)

\* s with its upper-case letters turned to lower case
Lowercase(s) == [i \in 1..Len(s) |-> IF s[i] >= 65 /\ s[i] <= 90 THEN s[i] + 32 ELSE s[i]]

\* a string of exactly 24 characters, each of 0-9, a-f or A-F
IsLegalString(v) ==
    /\ v.t = "T_STRING"
    /\ Len(v.s) = 24
    /\ \A i \in 1..Len(v.s) : v.s[i] \in HexChars

\* C13: to_s of a 12-byte id is 24 lower-case hex characters and from_string of it is
\* the id again; to_s of from_string(s), for a legal s in any case, is s in lower case.
C13_MutuallyInverse ==
    /\ (last.op = "to_s" /\ Len(last.arg.oid) = 12) =>
        /\ last.err = ""
        /\ last.value.t = "T_STRING"
        /\ Len(last.value.s) = 24
        /\ \A i \in 1..24 : last.value.s[i] \in LowerHexChars
    /\ (last.op = "from_string" /\ last.from # Nil) =>
        /\ last.err = ""
        /\ last.value = last.from
    /\ (last.op = "to_s" /\ last.from # Nil) =>
        last.value = String(Lowercase(last.from.s))

\* to_s(from_string("507F1f77bCf86cD799439011")) has returned "507f1f77bcf86cd799439011"
C13_Witness ==
    /\ last.op = "to_s"
    /\ last.from = String(HexExampleMixed)
    /\ last.value = String(HexExample)

\* C14: legal?(s) is true exactly of the strings of 24 hex characters; from_string(s)
\* returns an ObjectId exactly when legal?(s) is true, and otherwise fails with
\* InvalidObjectId and creates no id.
C14_LegalAndFromString ==
    /\ last.op = "legal?" => (last.err = "" /\ last.value = IsLegalString(last.arg))
    /\ last.op = "from_string" =>
        IF IsLegalString(last.arg)
        THEN last.err = "" /\ last.value.cls = "BSON::ObjectId" /\ Len(last.value.oid) = 12
        ELSE last.err = "InvalidObjectId" /\ last.value = Nil

\* from_string has failed on the 24 characters "0g0g0g0g0g0g0g0g0g0g0g0g"
C14_Witness ==
    /\ last.op = "from_string"
    /\ last.arg = String(Pairs(48, 103, 12))
    /\ last.err = "InvalidObjectId"

\* a non-negative host integer below 2^31 as an integer of the model
IntValue(x) == x.mag[1] + 256 * x.mag[2] + 65536 * x.mag[3] + 16777216 * x.mag[4]

\* the cap the facade should hold: 4 MiB until update_max_bson_size is called, then the
\* value the connection supplied last
ExpectedCap == IF supplied = <<>> THEN DefaultMaxBsonSize ELSE IntValue(supplied[1].n)

\* C15: after any calls of the extension the stored cap is 4,194,304 or, once
\* update_max_bson_size has been called, the value the connection supplied in the most
\* recent of these calls; max_bson_size returns it and update_max_bson_size returns the
\* value it stored.
C15_StoredCap ==
    /\ max_bson_size = ExpectedCap
    /\ last.op = "max_bson_size" => (last.err = "" /\ last.value = ExpectedCap)
    /\ last.op = "update_max_bson_size" =>
        (last.err = "" /\ last.value = IntValue(last.arg.max_bson_size.n))

\* max_bson_size has returned an updated cap after serialize, deserialize and generate
C15_Witness ==
    /\ last.op = "max_bson_size"
    /\ supplied # <<>>
    /\ last.value = IntValue(INT_MAX)
    /\ pc = "deserialized"
    /\ Len(generated) > 0

\* C16: deserialize reads no byte outside the bytes it is given (and so none outside
\* the frame their first four bytes announce): on every input it returns or fails
\* without a read past the end.
C16_ReadsInsideFrame == pc = "deserialized" => ~dec.oob

\* the tags of the Data Model
DataModelTags == (1..5) \cup (7..18) \cup {127, 255}

\* C17: deserialize fails with TypeError, and returns nothing, when an element of the
\* frame, at the top or nested, carries a tag that is none of the Data Model.
C17_UnknownTag ==
    pc = "deserialized" =>
        \A tag \in TagInputs \ DataModelTags :
            bson \in FramesOf(tag) => (dec.err = "TypeError" /\ dec.value = Nil)

\* a regex of v, at any depth, has a NUL byte in its pattern
RECURSIVE HasNulPattern(_)
HasNulPattern(v) ==
    IF v.t = "T_HASH" THEN \E i \in 1..Len(v.e) : HasNulPattern(v.e[i].v)
    ELSE IF v.t = "T_ARRAY" THEN \E i \in 1..Len(v.a) : HasNulPattern(v.a[i])
    ELSE IF v.t = "T_REGEXP" THEN HasByte(v.pattern, 0)
    ELSE IF v.t = "T_OBJECT" /\ v.cls = "BSON::Regex" THEN HasByte(v.pattern, 0)
    ELSE FALSE

\* the document {"a" => "a\0b"}
NulStringDoc == Hash(<<Entry(Key_a, String(<<97, 0, 98>>))>>)

\* C18: serialize fails, and returns nothing, when a key or a regex pattern of the
\* document contains a NUL byte; it succeeds on a string value with a NUL inside, whose
\* length prefix counts every byte of the string and the closing NUL.
C18_NulBytes ==
    /\ (pc # "call" /\ doc.t = "T_HASH" /\ (HasNulKey(doc) \/ HasNulPattern(doc)))
        => (ret.err # "" /\ ret.result = <<>>)
    /\ (pc # "call" /\ doc = NulStringDoc /\ max_size = DefaultMaxBsonSize)
        => /\ ret.err = ""
           /\ SubSeq(ret.result, 5, 15) = <<2, 97, 0>> \o Le32(4) \o <<97, 0, 98, 0>>

\* C19: during serialize no byte of the buffer is written over, except that the four
\* bytes of each reserved length slot are filled once, by the patch of the frame that
\* reserved them; a call that returns has left no slot unfilled.
C19_WriteThenPatch ==
    pc # "call" =>
        /\ \A i \in 1..Len(ret.log) : ret.log[i].slot /\ ret.log[i].n = 4
        /\ ret.err = "" => \A i \in 1..Len(ret.result) : ret.result[i] # Unset

\* the top-level document holds both "_id" and :_id
HasBothIds(hash) ==
    hash.t = "T_HASH" /\ has_key(hash, StrKey(Str_id)) /\ has_key(hash, SymKey(Str_id))

EntryNames(v) == [i \in 1..Len(v.e) |-> CStr(v.e[i].k.s)]

\* the value v, written at offset at of buf, has every document embedded in it
\* written entry for entry in the order of that document, and every array item for
\* item: a nested document, the items of an array, the scope of a Code and the
\* "$id" of a DBRef
RECURSIVE InOwnOrder(_, _, _)
InOwnOrder(buf, at, v) ==
    IF v.t = "T_HASH"
        THEN LET els == Elements(buf, at)
             IN  /\ Names(els) = EntryNames(v)
                 /\ \A i \in 1..Len(v.e) : InOwnOrder(buf, els[i].at, v.e[i].v)
    ELSE IF v.t = "T_ARRAY"
        THEN LET els == Elements(buf, at)
             IN  /\ Len(els) = Len(v.a)
                 /\ \A i \in 1..Len(v.a) : InOwnOrder(buf, els[i].at, v.a[i])
    ELSE IF v.t = "T_OBJECT" /\ v.cls = "BSON::Code"
        THEN InOwnOrder(buf, at + 8 + Int32At(BytesAt(buf, at + 4, 4)), v.scope)
    ELSE IF v.t = "T_OBJECT" /\ v.cls = "BSON::DBRef"
        THEN LET els == Elements(buf, at)
             IN  /\ Names(els) = <<Str_ref, Str_dollar_id>>
                 /\ InOwnOrder(buf, els[2].at, v.oid)
    ELSE TRUE

\* a document of v, v included, has an "_id" entry that is not its first
RECURSIVE HasLaterId(_)
HasLaterId(v) ==
    IF v.t = "T_HASH"
        THEN \/ \E i \in 2..Len(v.e) : IsId(v.e[i].k)
             \/ \E i \in 1..Len(v.e) : HasLaterId(v.e[i].v)
    ELSE IF v.t = "T_ARRAY" THEN \E i \in 1..Len(v.a) : HasLaterId(v.a[i])
    ELSE IF v.t = "T_OBJECT" /\ v.cls = "BSON::Code" THEN HasLaterId(v.scope)
    ELSE FALSE

\* C21: move_id affects only the top-level document: with move_id = true every
\* embedded document (nested directly, inside an array or in a code scope) is
\* written with its entries in their own order, an "_id" entry of an embedded
\* document in its place and once, neither moved to the front nor left out
C21_EmbeddedOrder ==
    (Returned /\ move_id) =>
        LET top == Elements(ret.result, 0)
        IN  \A i \in 1..Len(doc.e) : \A j \in 1..Len(top) :
                top[j].name = CStr(doc.e[i].k.s) => InOwnOrder(ret.result, top[j].at, doc.e[i].v)

\* a call with move_id = true has returned the bytes of {"a" => v} where v holds,
\* directly, in an array or in a code scope, a document whose "_id" is not its first
\* entry
C21_Witness ==
    /\ Returned /\ move_id
    /\ Len(doc.e) = 1 /\ doc.e[1].k = Key_a
    /\ HasLaterId(doc.e[1].v)

\* the entry en of the document is written as the element el of buf: under its name
\* (up to the first NUL, as write_name_and_type writes it) and, when it holds an
\* integer, with that integer as its value
WrittenAs(buf, el, en) ==
    /\ el.name = CStr(en.k.s)
    /\ en.v.t \in {"T_FIXNUM", "T_BIGNUM"} =>
           get_value(buf, el.at, el.tag, NoOpts).value = en.v

\* C22: serialize never silently drops an entry other than a suppressed `_id`: for
\* every document, keys with a NUL byte included, and both settings of move_id, an
\* entry whose key is not exactly the three bytes `_id` is written to the output
\* as one element, unless the whole call fails
C22_NoSilentDrop ==
    Returned =>
        LET top == Elements(ret.result, 0)
        IN  \A i \in 1..Len(doc.e) :
                doc.e[i].k.s # Str_id =>
                    \E j \in 1..Len(top) : WrittenAs(ret.result, top[j], doc.e[i])

=========================================================================
